---- MODULE Spec2Model ----
(***************************************************************************)
(* A model of the treatment reconciliation logic of omdctk:               *)
(* treat_fastqs.py (the file treatment engine and its main program), the  *)
(* pre-flight of treat_metadata.py, and the validation helpers of         *)
(* omdctk_common.py.                                                       *)
(*                                                                         *)
(* Strings (file names, sample names, file patterns) are sequences of     *)
(* one-character strings, so that str.endswith, string concatenation and  *)
(* list.sort are computed on characters as Python computes them.          *)
(* The values of the fastq_type and treatment columns are TLA+ strings.   *)
(***************************************************************************)
EXTENDS Integers, Sequences, FiniteSets, TLC

(***************************************************************************)
(* Bounds of the model.                                                    *)
(***************************************************************************)
\* rows of a treatment template loaded by a run
MaxRows == 4
\* files of one fastq_type in a sample of the shape specification
MaxCount == 2
\* characters of a file name in the pattern specification
MaxNameLen == 2
\* characters of an R1 or R2 pattern in the pattern specification
MaxPatternLen == 2
\* metadata rows handed to one fold of a column
MaxFoldRows == 3
\* rows of the warning table in the fold specification
MaxWarnings == 2
\* rows of a treatment template in the metadata specification
MaxTemplateRows == 4
\* rows of a metadata table in the metadata specification
MaxMetadataRows == 3

VARIABLES
    program,              \* which script runs: "treat_fastqs" / "treat_metadata"
    pc,                   \* position of main()
    fastq_pattern,        \* args.fastq_pattern
    r1_files_pattern,     \* args.r1_pattern
    r2_files_pattern,     \* args.r2_pattern
    dirs,                 \* what the directory arguments point at
    input_dir,            \* the input store: file name -> contents
    output_dir,           \* the output store: file name -> contents
    fastqs_in_directory,  \* the listing of the input store
    treatment_table,      \* the loaded Treatment Template
    unique_sample_names,  \* sorted unique sample names
    sample_idx,           \* position of the loop of treat_files
    warning_samples,      \* treat_files' warning list
    ops,                  \* the file operations attempted so far
    error,                \* the exception main() caught
    report,               \* what treat_files printed at its end
    probe,                \* arguments and results of the functions applied alone
    metadata,             \* the loaded Metadata Table
    treated_metadata_df,  \* treat_metadata's global table of treated rows
    warnings_df,          \* treat_metadata's global table of warnings
    no_warning_columns    \* treat_metadata's list of columns that never warn

\* the tables of treat_metadata.py
metadata_vars == <<metadata, treated_metadata_df, warnings_df, no_warning_columns>>

vars == <<program, pc, fastq_pattern, r1_files_pattern, r2_files_pattern, dirs,
          input_dir, output_dir, fastqs_in_directory, treatment_table,
          unique_sample_names, sample_idx, warning_samples, ops, error,
          report, probe, metadata, treated_metadata_df, warnings_df,
          no_warning_columns>>

(***************************************************************************)
(* Strings.                                                                *)
(***************************************************************************)
\* the code point of a character (Python compares strings by code point)
CharCode(c) ==
    CASE c = "." -> 46
      [] c = "1" -> 49
      [] c = "2" -> 50
      [] c = ";" -> 59
      [] c = "A" -> 65
      [] c = "B" -> 66
      [] c = "C" -> 67
      [] c = "D" -> 68
      [] c = "E" -> 69
      [] c = "G" -> 71
      [] c = "I" -> 73
      [] c = "L" -> 76
      [] c = "M" -> 77
      [] c = "N" -> 78
      [] c = "P" -> 80
      [] c = "R" -> 82
      [] c = "S" -> 83
      [] c = "X" -> 88
      [] c = "Y" -> 89
      [] c = "Z" -> 90
      [] c = "_" -> 95
      [] c = "g" -> 103
      [] OTHER -> 127

\* str.endswith
EndsWith(s, p) ==
    /\ Len(p) <= Len(s)
    /\ SubSeq(s, Len(s) - Len(p) + 1, Len(s)) = p

\* str.__lt__
RECURSIVE StrLess(_, _)
StrLess(a, b) ==
    IF a = <<>> THEN b # <<>>
    ELSE IF b = <<>> THEN FALSE
    ELSE IF Head(a) = Head(b) THEN StrLess(Tail(a), Tail(b))
    ELSE CharCode(Head(a)) < CharCode(Head(b))

\* the position of x in an ascending list
RECURSIVE InsertSorted(_, _)
InsertSorted(x, l) ==
    IF l = <<>> THEN <<x>>
    ELSE IF StrLess(x, Head(l)) THEN <<x>> \o l
    ELSE <<Head(l)>> \o InsertSorted(x, Tail(l))

\* list.sort() on a list of strings
RECURSIVE SortStrings(_)
SortStrings(l) ==
    IF l = <<>> THEN <<>>
    ELSE InsertSorted(Head(l), SortStrings(Tail(l)))

Range(f) == {f[i] : i \in DOMAIN f}

\* a set as a list, in its sorted order: list(set(...)) followed by .sort()
RECURSIVE SetToSortedList(_)
SetToSortedList(S) ==
    IF S = {} THEN <<>>
    ELSE LET m == CHOOSE x \in S : \A y \in S \ {x} : StrLess(x, y)
         IN <<m>> \o SetToSortedList(S \ {m})

\* the orders a list(set(...)) may come in
Orderings(S) ==
    {q \in [1..Cardinality(S) -> S] : Range(q) = S}

(***************************************************************************)
(* Constants of omdctk_common.py and the exceptions of the checks.         *)
(***************************************************************************)
TEMPLATE_FINAL_COLUMNS == <<"sample_name", "fastq_file_name", "fastq_type", "treatment">>

VALID_FASTQ_TYPES == <<"pair1", "pair2", "single">>

VALID_TREATMENTS == <<"merge", "copy", "rename">>

\* pandas' NaN in a column of names (a string no file or sample is called)
NaN == <<"NaN">>

\* no exception
NoError == [kind |-> "none", names |-> <<>>, configs |-> <<>>, values |-> <<>>]

\* OMD_CTK_Exception: the check that raised it and what its message lists:
\* names (files or samples), configs (samples with their file counts),
\* values (column values or headers)
OMD_CTK_Exception(kind, names, configs, values) ==
    [kind |-> kind, names |-> names, configs |-> configs, values |-> values]

Column(table, col) == [i \in DOMAIN table.rows |-> table.rows[i][col]]

(***************************************************************************)
(* Global checks.                                                          *)
(***************************************************************************)
check_existence_directory_parameter(is_dir, dir_type) ==
    IF is_dir = FALSE
    THEN OMD_CTK_Exception("not_a_directory", <<>>, <<>>, <<dir_type>>)
    ELSE NoError

check_directories_are_not_identical(same_dir) ==
    IF same_dir = TRUE
    THEN OMD_CTK_Exception("same_directories", <<>>, <<>>, <<>>)
    ELSE NoError

\* variant: a paired pattern may be the general pattern
paired_patterns_two_branches(fp, r1, r2) ==
    IF EndsWith(r1, fp) = FALSE \/ EndsWith(r2, fp) = FALSE
    THEN OMD_CTK_Exception("patterns_not_matching", <<>>, <<>>, <<>>)
    ELSE IF r1 = r2
    THEN OMD_CTK_Exception("patterns_identical", <<>>, <<>>, <<>>)
    ELSE NoError

check_fastq_PAIRED_patterns(fp, r1, r2) ==
    IF EndsWith(r1, fp) = FALSE \/ EndsWith(r2, fp) = FALSE
    THEN OMD_CTK_Exception("patterns_not_matching", <<>>, <<>>, <<>>)
    ELSE IF r1 = r2
    THEN OMD_CTK_Exception("patterns_identical", <<>>, <<>>, <<>>)
    ELSE IF r1 = fp \/ r2 = fp
    THEN OMD_CTK_Exception("pattern_is_fastq_pattern", <<>>, <<>>, <<>>)
    ELSE NoError

\* the files of the directory that end with the pattern (os.listdir gives
\* them in no particular order: a set)
fastq_files_of(directory, fp) == {x \in DOMAIN directory : EndsWith(x, fp)}

get_list_fastqs_in_directory(directory, fp) ==
    IF Cardinality(fastq_files_of(directory, fp)) = 0
    THEN OMD_CTK_Exception("no_fastq_files", <<>>, <<>>, <<>>)
    ELSE NoError

(***************************************************************************)
(* Checks of the Treatment Template as a table.                            *)
(***************************************************************************)
check_headers(list_headers, table) ==
    \A i \in DOMAIN list_headers : list_headers[i] \in table.columns

treat_headers_check(headers_used, headers_check) ==
    IF headers_check = FALSE
    THEN OMD_CTK_Exception("headers", <<>>, <<>>, headers_used)
    ELSE NoError

check_values(list_values, pandas_column) ==
    \A i \in DOMAIN pandas_column : pandas_column[i] \in Range(list_values)

treat_values_check(kind, expected_values, values_check) ==
    IF values_check = FALSE
    THEN OMD_CTK_Exception(kind, <<>>, <<>>, expected_values)
    ELSE NoError

check_na_in_pandas_dataframe(kind, pandas_column) ==
    IF \E i \in DOMAIN pandas_column : pandas_column[i] = NaN
    THEN OMD_CTK_Exception(kind, <<>>, <<>>, <<>>)
    ELSE NoError

\* DataFrame.duplicated: every row whose file name an earlier row holds
duplicated(column) ==
    [i \in DOMAIN column |-> \E j \in 1..(i - 1) : column[j] = column[i]]

RECURSIVE SelectByFlag(_, _)
SelectByFlag(column, flags) ==
    IF column = <<>> THEN <<>>
    ELSE (IF Head(flags) THEN <<Head(column)>> ELSE <<>>)
         \o SelectByFlag(Tail(column), Tail(flags))

check_duplicates_in_fastq_names(table) ==
    LET column == Column(table, "fastq_file_name")
        duplicates == SelectByFlag(column, duplicated(column))
    IN IF Len(duplicates) > 0
       THEN OMD_CTK_Exception("duplicates", duplicates, <<>>, <<>>)
       ELSE NoError

(***************************************************************************)
(* Checks per file.                                                        *)
(***************************************************************************)
\* variant: a single file only has to end with the general pattern
name_type_single_by_general_pattern(fastq_file_name, fastq_type, fp, R1_pattern, R2_pattern) ==
    IF fastq_type = "pair1" /\ EndsWith(fastq_file_name, R1_pattern) THEN TRUE
    ELSE IF fastq_type = "pair2" /\ EndsWith(fastq_file_name, R2_pattern) THEN TRUE
    ELSE IF fastq_type = "single" /\ EndsWith(fastq_file_name, fp) THEN TRUE
    ELSE FALSE

check_fastq_name_type(fastq_file_name, fastq_type, fp, R1_pattern, R2_pattern) ==
    IF fastq_type = "pair1" /\ EndsWith(fastq_file_name, R1_pattern) THEN TRUE
    ELSE IF fastq_type = "pair2" /\ EndsWith(fastq_file_name, R2_pattern) THEN TRUE
    ELSE IF /\ fastq_type = "single"
            /\ EndsWith(fastq_file_name, fp)
            /\ ~(EndsWith(fastq_file_name, R1_pattern) \/ EndsWith(fastq_file_name, R2_pattern))
    THEN TRUE
    ELSE FALSE

\* variant: get_fastq_type without the branch of the R2 pattern
get_fastq_type_without_pair2(fastq_name, r1_pattern, r2_pattern) ==
    IF EndsWith(fastq_name, r1_pattern) THEN "pair1" ELSE "single"

\* make_treatment_template.py: the fastq_type of a raw template row
get_fastq_type(fastq_name, r1_pattern, r2_pattern) ==
    IF EndsWith(fastq_name, r1_pattern) THEN "pair1"
    ELSE IF EndsWith(fastq_name, r2_pattern) THEN "pair2"
    ELSE "single"

\* variant: only the first file that disagrees with its type is listed
name_type_first_file_only(table, fp, R1_pattern, R2_pattern) ==
    LET checks == [i \in DOMAIN table.rows |->
                     check_fastq_name_type(table.rows[i].fastq_file_name,
                                           table.rows[i].fastq_type,
                                           fp, R1_pattern, R2_pattern) = FALSE]
        warnings_list == SelectByFlag(Column(table, "fastq_file_name"), checks)
    IN IF Len(warnings_list) > 0
       THEN OMD_CTK_Exception("name_type_mismatch", <<warnings_list[1]>>, <<>>, <<>>)
       ELSE NoError

treat_check_fastq_name_type(table, fp, R1_pattern, R2_pattern) ==
    LET checks == [i \in DOMAIN table.rows |->
                     check_fastq_name_type(table.rows[i].fastq_file_name,
                                           table.rows[i].fastq_type,
                                           fp, R1_pattern, R2_pattern) = FALSE]
        warnings_list == SelectByFlag(Column(table, "fastq_file_name"), checks)
    IN IF Len(warnings_list) > 0
       THEN OMD_CTK_Exception("name_type_mismatch", warnings_list, <<>>, <<>>)
       ELSE NoError

\* variant: only one of the absent files is named
file_exits_one_absent_file(list_fastq_files, fastqs) ==
    LET fastqs_difference == Range(list_fastq_files) \ fastqs
    IN IF Cardinality(fastqs_difference) > 0
       THEN {OMD_CTK_Exception("absent_files", <<f>>, <<>>, <<>>) : f \in fastqs_difference}
       ELSE {NoError}

\* the absent files come out of a set difference, in no particular order:
\* the exceptions the check may raise (none: it passes)
check_fastq_file_exits(list_fastq_files, fastqs) ==
    LET fastqs_difference == Range(list_fastq_files) \ fastqs
    IN IF Cardinality(fastqs_difference) > 0
       THEN {OMD_CTK_Exception("absent_files", q, <<>>, <<>>) :
                q \in Orderings(fastqs_difference)}
       ELSE {NoError}

(***************************************************************************)
(* Checks per sample.                                                      *)
(***************************************************************************)
\* treatment_df[treatment_df['sample_name'] == sample]
rows_of_sample(table, sample) ==
    SelectSeq(table.rows, LAMBDA r : r.sample_name = sample)

\* list.count
count(l, v) == Cardinality({i \in DOMAIN l : l[i] = v})

\* list(set(treatment_table['sample_name'])) followed by .sort()
get_unique_sample_names(table) ==
    SetToSortedList(Range(Column(table, "sample_name")))

\* (temp_n_pair1, temp_n_pair2, temp_n_single) of a sample, with its name
file_configuration(table, sample) ==
    LET temp_list_fastqtypes == [i \in DOMAIN rows_of_sample(table, sample) |->
                                    rows_of_sample(table, sample)[i].fastq_type]
    IN [sample |-> sample,
        n_pair1 |-> count(temp_list_fastqtypes, "pair1"),
        n_pair2 |-> count(temp_list_fastqtypes, "pair2"),
        n_single |-> count(temp_list_fastqtypes, "single")]

treatments_of_sample(table, sample) ==
    {r.treatment : r \in Range(rows_of_sample(table, sample))}

\* variant: the loop over the samples stops at the first mixed sample
check_treatment_first_sample_only(table, unique_samples_list) ==
    LET flags == [i \in DOMAIN unique_samples_list |->
                    Cardinality(treatments_of_sample(table, unique_samples_list[i])) # 1]
        warnings_list == SelectByFlag(unique_samples_list, flags)
    IN IF Len(warnings_list) > 0
       THEN OMD_CTK_Exception("mixed_treatments", <<warnings_list[1]>>, <<>>, <<>>)
       ELSE NoError

check_treatment_for_samples(table, unique_samples_list) ==
    LET flags == [i \in DOMAIN unique_samples_list |->
                    Cardinality(treatments_of_sample(table, unique_samples_list[i])) # 1]
        warnings_list == SelectByFlag(unique_samples_list, flags)
    IN IF Len(warnings_list) > 0
       THEN OMD_CTK_Exception("mixed_treatments", warnings_list, <<>>, <<>>)
       ELSE NoError

\* the branches of check_rename_samples that pass
acceptable_rename_configuration(c) ==
    IF c.n_pair1 = 1 /\ c.n_pair2 = 1 /\ c.n_single = 1 THEN TRUE
    ELSE IF c.n_pair1 = 0 /\ c.n_pair2 = 0 /\ c.n_single = 1 THEN TRUE
    ELSE IF c.n_pair1 = 1 /\ c.n_pair2 = 1 /\ c.n_single = 0 THEN TRUE
    ELSE FALSE

check_rename_samples(table, unique_samples_list) ==
    LET configs == [i \in DOMAIN unique_samples_list |->
                      file_configuration(table, unique_samples_list[i])]
        flags == [i \in DOMAIN unique_samples_list |->
                    IF "rename" \notin treatments_of_sample(table, unique_samples_list[i])
                    THEN FALSE
                    ELSE ~acceptable_rename_configuration(configs[i])]
        check_frases == SelectByFlag(configs, flags)
    IN IF Len(check_frases) > 0
       THEN OMD_CTK_Exception("rename_configuration", <<>>, check_frases, <<>>)
       ELSE NoError

\* variant: one file of a type is enough for a merge
merge_configuration_of_one_file(c) ==
    IF /\ c.n_pair1 >= 1 /\ c.n_pair2 >= 1 /\ c.n_single >= 1
       /\ c.n_pair1 = c.n_pair2 /\ c.n_pair1 = c.n_single THEN TRUE
    ELSE IF c.n_pair1 = 0 /\ c.n_pair2 = 0 /\ c.n_single >= 1 THEN TRUE
    ELSE IF c.n_single = 0 /\ c.n_pair1 >= 1 /\ c.n_pair2 >= 1 /\ c.n_pair1 = c.n_pair2 THEN TRUE
    ELSE FALSE

\* the branches of check_merge_samples that pass
acceptable_merge_configuration(c) ==
    IF /\ c.n_pair1 > 1 /\ c.n_pair2 > 1 /\ c.n_single > 1
       /\ c.n_pair1 = c.n_pair2 /\ c.n_pair1 = c.n_single THEN TRUE
    ELSE IF c.n_pair1 = 0 /\ c.n_pair2 = 0 /\ c.n_single > 1 THEN TRUE
    ELSE IF c.n_single = 0 /\ c.n_pair1 > 1 /\ c.n_pair2 > 1 /\ c.n_pair1 = c.n_pair2 THEN TRUE
    ELSE FALSE

check_merge_samples(table, unique_samples_list) ==
    LET configs == [i \in DOMAIN unique_samples_list |->
                      file_configuration(table, unique_samples_list[i])]
        flags == [i \in DOMAIN unique_samples_list |->
                    IF "merge" \notin treatments_of_sample(table, unique_samples_list[i])
                    THEN FALSE
                    ELSE ~acceptable_merge_configuration(configs[i])]
        check_frases == SelectByFlag(configs, flags)
    IN IF Len(check_frases) > 0
       THEN OMD_CTK_Exception("merge_configuration", <<>>, check_frases, <<>>)
       ELSE NoError

\* the first exception of a list of checks run in order
RECURSIVE first_exception(_)
first_exception(results) ==
    IF results = <<>> THEN NoError
    ELSE IF Head(results).kind # "none" THEN Head(results)
    ELSE first_exception(Tail(results))

(***************************************************************************)
(* The file treatment engine of treat_fastqs.py.  A file operation is a    *)
(* record: its kind, its sample, the input files it reads (in that order)  *)
(* and the name it writes in the output store.                             *)
(***************************************************************************)
FileOp(kind, sample, inputs, output) ==
    [kind |-> kind, sample |-> sample, inputs |-> inputs, output |-> output]

\* the files of a sample that have the fastq_type, in template order
files_of_type(sample_df, fastq_type) ==
    LET sample_df_type == SelectSeq(sample_df, LAMBDA r : r.fastq_type = fastq_type)
    IN [i \in DOMAIN sample_df_type |-> sample_df_type[i].fastq_file_name]

\* variant: the input files are not sorted
treat_cat_files_unsorted(sample_df, fastq_type, type_pattern) ==
    LET sample_name == CHOOSE n \in {r.sample_name : r \in Range(sample_df)} : TRUE
        fastq_name == sample_name \o type_pattern
        input_files == files_of_type(sample_df, fastq_type)
    IN FileOp("cat", sample_name, input_files, fastq_name)

treat_cat_files(sample_df, fastq_type, type_pattern) ==
    LET sample_name == CHOOSE n \in {r.sample_name : r \in Range(sample_df)} : TRUE
        fastq_name == sample_name \o type_pattern
        input_files == SortStrings(files_of_type(sample_df, fastq_type))
    IN FileOp("cat", sample_name, input_files, fastq_name)

\* variant: merge_mode without the branch of the samples that have paired
\* and single files
merge_mode_without_mixed_branch(sample_df, fp, R1_pattern, R2_pattern) ==
    LET temp_list_fastqtypes == [i \in DOMAIN sample_df |-> sample_df[i].fastq_type]
        temp_n_pair1 == count(temp_list_fastqtypes, "pair1")
        temp_n_pair2 == count(temp_list_fastqtypes, "pair2")
        temp_n_single == count(temp_list_fastqtypes, "single")
    IN IF temp_n_pair1 = 0 /\ temp_n_pair2 = 0 /\ temp_n_single > 1
       THEN <<treat_cat_files(sample_df, "single", fp)>>
       ELSE IF /\ temp_n_single = 0 /\ temp_n_pair1 > 1 /\ temp_n_pair2 > 1
               /\ temp_n_pair1 = temp_n_pair2
       THEN <<treat_cat_files(sample_df, "pair1", R1_pattern),
              treat_cat_files(sample_df, "pair2", R2_pattern)>>
       ELSE <<>>

\* the concatenation jobs merge_mode runs, in order
merge_mode(sample_df, fp, R1_pattern, R2_pattern) ==
    LET temp_list_fastqtypes == [i \in DOMAIN sample_df |-> sample_df[i].fastq_type]
        temp_n_pair1 == count(temp_list_fastqtypes, "pair1")
        temp_n_pair2 == count(temp_list_fastqtypes, "pair2")
        temp_n_single == count(temp_list_fastqtypes, "single")
    IN IF /\ temp_n_pair1 > 1 /\ temp_n_pair2 > 1 /\ temp_n_single > 1
          /\ temp_n_pair1 = temp_n_pair2 /\ temp_n_pair1 = temp_n_single
       THEN <<treat_cat_files(sample_df, "pair1", R1_pattern),
              treat_cat_files(sample_df, "pair2", R2_pattern),
              treat_cat_files(sample_df, "single", fp)>>
       ELSE IF temp_n_pair1 = 0 /\ temp_n_pair2 = 0 /\ temp_n_single > 1
       THEN <<treat_cat_files(sample_df, "single", fp)>>
       ELSE IF /\ temp_n_single = 0 /\ temp_n_pair1 > 1 /\ temp_n_pair2 > 1
               /\ temp_n_pair1 = temp_n_pair2
       THEN <<treat_cat_files(sample_df, "pair1", R1_pattern),
              treat_cat_files(sample_df, "pair2", R2_pattern)>>
       ELSE <<>>

\* variant: every renamed file gets the general pattern
rename_mode_general_pattern(sample_name, fastq_file_name, fastq_type, fp, R1_pattern, R2_pattern) ==
    FileOp("rename", sample_name, <<fastq_file_name>>, sample_name \o fp)

rename_mode(sample_name, fastq_file_name, fastq_type, fp, R1_pattern, R2_pattern) ==
    LET fastq_name == IF fastq_type = "pair1" THEN sample_name \o R1_pattern
                      ELSE IF fastq_type = "pair2" THEN sample_name \o R2_pattern
                      ELSE sample_name \o fp
    IN FileOp("rename", sample_name, <<fastq_file_name>>, fastq_name)

copy_only_mode(sample_name, fastq_file_name) ==
    FileOp("copy", sample_name, <<fastq_file_name>>, fastq_file_name)

\* the operations treat_files runs for one sample, in order
sample_operations(table, sample, fp, R1_pattern, R2_pattern) ==
    LET temp_sample == rows_of_sample(table, sample)
        temp_treatment == temp_sample[1].treatment
    IN IF temp_treatment = "merge"
       THEN merge_mode(temp_sample, fp, R1_pattern, R2_pattern)
       ELSE [i \in DOMAIN temp_sample |->
               IF temp_treatment = "rename"
               THEN rename_mode(sample, temp_sample[i].fastq_file_name,
                                temp_sample[i].fastq_type, fp, R1_pattern, R2_pattern)
               ELSE copy_only_mode(sample, temp_sample[i].fastq_file_name)]

\* what shutil.copyfileobj appends for the input files, one after the other
RECURSIVE cat_contents(_, _)
cat_contents(list_inputfiles, directory) ==
    IF list_inputfiles = <<>> THEN <<>>
    ELSE directory[Head(list_inputfiles)] \o cat_contents(Tail(list_inputfiles), directory)

\* how cat_files / shutil.copyfile may end: the whole contents written and
\* no exception, or an exception, with the output file not created or left
\* with a part of the contents
io_outcomes(op, directory) ==
    LET full == cat_contents(op.inputs, directory)
    IN {[failed |-> FALSE, creates |-> TRUE, data |-> full]}
       \cup {[failed |-> TRUE, creates |-> FALSE, data |-> <<>>]}
       \cup {[failed |-> TRUE, creates |-> TRUE, data |-> SubSeq(full, 1, k)] :
                k \in 0..(Len(full) - 1)}

RECURSIVE outcome_vectors(_, _)
outcome_vectors(plan, directory) ==
    IF plan = <<>> THEN {<<>>}
    ELSE {<<o>> \o rest : o \in io_outcomes(Head(plan), directory),
                          rest \in outcome_vectors(Tail(plan), directory)}

\* open(path, 'wb') and the bytes written
write_file(directory, name, data) ==
    [n \in DOMAIN directory \cup {name} |-> IF n = name THEN data ELSE directory[n]]

\* variant: the output path is built from the input directory
output_path_in_input_directory(op) ==
    [directory |-> "input", name |-> op.output]

\* os.path.join(output_directory_path, fastq_name): where an operation writes
output_path(op) ==
    [directory |-> "output", name |-> op.output]

\* the two directories after the operations of a sample, run in order
RECURSIVE run_operations(_, _, _)
run_operations(directories, plan, outcomes) ==
    IF plan = <<>> THEN directories
    ELSE run_operations(
            IF Head(outcomes).creates
            THEN LET path == output_path(Head(plan))
                 IN [directories EXCEPT ![path.directory] =
                        write_file(directories[path.directory], path.name,
                                   Head(outcomes).data)]
            ELSE directories,
            Tail(plan), Tail(outcomes))

\* variant: the first operation that fails ends the treatment of the sample
operations_until_failure(plan, outcomes) ==
    LET failures == {i \in DOMAIN plan : outcomes[i].failed}
        last == IF failures = {} THEN Len(plan)
                ELSE CHOOSE i \in failures : \A j \in failures : i <= j
    IN [i \in 1..last |-> [op |-> plan[i], failed |-> outcomes[i].failed]]

\* the operations treat_files has attempted for a sample: an exception of
\* an operation is caught where it is raised and the next one is run
attempted_operations(plan, outcomes) ==
    [i \in DOMAIN plan |-> [op |-> plan[i], failed |-> outcomes[i].failed]]

\* variant: a merge sample is a warning sample when all its concatenations fail
sample_warnings_all_failed(sample, treatment, outcomes) ==
    IF treatment = "merge"
    THEN (IF \A i \in DOMAIN outcomes : outcomes[i].failed THEN <<sample>> ELSE <<>>)
    ELSE SelectByFlag([i \in DOMAIN outcomes |-> sample],
                      [i \in DOMAIN outcomes |-> outcomes[i].failed])

\* what treat_files appends to warning_samples for a sample
sample_warnings(sample, treatment, outcomes) ==
    IF treatment = "merge"
    THEN (IF \E i \in DOMAIN outcomes : outcomes[i].failed THEN <<sample>> ELSE <<>>)
    ELSE SelectByFlag([i \in DOMAIN outcomes |-> sample],
                      [i \in DOMAIN outcomes |-> outcomes[i].failed])

(***************************************************************************)
(* The inputs of a run: the command line, the two directories and the      *)
(* Treatment Template file.                                                *)
(***************************************************************************)
Row(s, f, t, tr) ==
    [sample_name |-> s, fastq_file_name |-> f, fastq_type |-> t, treatment |-> tr]

\* the rows a Treatment Template file is made of: well-formed rows of two
\* samples, and rows that break one template rule each
RowPool ==
    << Row(<<"A">>, <<"A", "1", "g">>, "pair1", "rename"),
       Row(<<"A">>, <<"A", "2", "g">>, "pair2", "rename"),
       Row(<<"A">>, <<"A", "g">>, "single", "rename"),
       Row(<<"A">>, <<"B", "g">>, "single", "merge"),
       Row(<<"A">>, <<"C", "g">>, "single", "merge"),
       Row(<<"B">>, <<"B", "g">>, "single", "copy"),
       Row(<<"B">>, <<"A", "g">>, "single", "copy"),
       Row(<<"B">>, <<"B", "1", "g">>, "pair1", "copy"),
       Row(<<"B">>, <<"B", "1", "g">>, "pair1", "merge"),
       Row(<<"B">>, <<"C", "1", "g">>, "pair1", "merge"),
       Row(<<"B">>, <<"B", "2", "g">>, "pair2", "merge"),
       Row(<<"B">>, <<"C", "2", "g">>, "pair2", "merge"),
       Row(<<"B">>, <<"C", "g">>, "single", "rename"),
       Row(<<"A">>, <<"A", "1", "g">>, "single", "rename"),
       Row(<<"B">>, <<"B", "g">>, "pair2", "copy"),
       Row(<<"A">>, <<"A", "g">>, "paired", "copy"),
       Row(<<"B">>, <<"B", "g">>, "single", "move"),
       Row(NaN, <<"A", "g">>, "single", "copy"),
       Row(<<"A">>, NaN, "single", "copy") >>

\* the sets of at most n numbers of 1..m
RECURSIVE SubsetsUpTo(_, _)
SubsetsUpTo(m, n) ==
    IF m = 0 \/ n = 0 THEN {{}}
    ELSE SubsetsUpTo(m - 1, n) \cup {S \cup {m} : S \in SubsetsUpTo(m - 1, n - 1)}

RECURSIVE Ascending(_)
Ascending(S) ==
    IF S = {} THEN <<>>
    ELSE LET m == CHOOSE x \in S : \A y \in S : x <= y
         IN <<m>> \o Ascending(S \ {m})

Reverse(l) == [i \in DOMAIN l |-> l[Len(l) + 1 - i]]

Table(rows) ==
    [loaded |-> TRUE, columns |-> Range(TEMPLATE_FINAL_COLUMNS), rows |-> rows]

\* no table yet
NoTable == [loaded |-> FALSE, columns |-> {}, rows |-> <<>>]

\* a table without the treatment column
HeaderlessTable ==
    [loaded |-> TRUE, columns |-> Range(TEMPLATE_FINAL_COLUMNS) \ {"treatment"}, rows |-> <<>>]

\* the tables pd.read_csv may return: at most MaxRows rows of the pool, in
\* the order of the pool or in the opposite order
Templates ==
    LET picks == {Ascending(S) : S \in SubsetsUpTo(Len(RowPool), MaxRows)}
    IN {Table([i \in DOMAIN q |-> RowPool[q[i]]]) : q \in picks}
       \cup {Table([i \in DOMAIN q |-> RowPool[Reverse(q)[i]]]) : q \in picks}
       \cup {HeaderlessTable}

GeneralPatterns == {<<"g">>}

PairedPatterns == {<<"1", "g">>, <<"2", "g">>, <<"g">>, <<"1">>}

\* a file of the input store holds one block, named after the file
FileContents(name) == <<name>>

AllFiles ==
    {RowPool[i].fastq_file_name : i \in DOMAIN RowPool} \ {NaN}

Directory(files) == [n \in files |-> FileContents(n)]

\* the input directories: every file of the pool and a file that is no
\* fastq file; the same without two of the fastq files; no fastq file
InputDirectories ==
    { Directory(AllFiles \cup {<<"A", "1">>}),
      Directory((AllFiles \ {<<"A", "g">>, <<"B", "g">>}) \cup {<<"A", "1">>}),
      Directory({<<"A", "1">>}) }

EmptyDirectory == Directory({})

\* the output directories: empty, or holding a file of an earlier run
OutputDirectories ==
    { EmptyDirectory, [n \in {<<"C", "g">>} |-> <<<<"o", "l", "d">>>>] }

\* what the directory arguments point at when the program starts
Worlds(prog) ==
    IF prog = "treat_fastqs"
    THEN {[dirs |-> [input_is_dir |-> TRUE, output_is_dir |-> TRUE, same_dir |-> FALSE],
           input |-> i, output |-> o] : i \in InputDirectories, o \in OutputDirectories}
         \cup {[dirs |-> [input_is_dir |-> TRUE, output_is_dir |-> TRUE, same_dir |-> TRUE],
                input |-> i, output |-> i] : i \in InputDirectories}
         \cup {[dirs |-> [input_is_dir |-> FALSE, output_is_dir |-> TRUE, same_dir |-> FALSE],
                input |-> EmptyDirectory, output |-> o] : o \in OutputDirectories}
         \cup {[dirs |-> [input_is_dir |-> TRUE, output_is_dir |-> FALSE, same_dir |-> FALSE],
                input |-> i, output |-> EmptyDirectory] : i \in InputDirectories}
    ELSE {[dirs |-> [input_is_dir |-> TRUE, output_is_dir |-> TRUE, same_dir |-> FALSE],
           input |-> EmptyDirectory, output |-> o] : o \in OutputDirectories}
         \cup {[dirs |-> [input_is_dir |-> TRUE, output_is_dir |-> FALSE, same_dir |-> FALSE],
                input |-> EmptyDirectory, output |-> EmptyDirectory]}

NoListing == [listed |-> FALSE, files |-> {}]

NoReport == [printed |-> FALSE, n_output_files |-> 0, warning_samples |-> <<>>]

NoProbe == [function |-> "none"]

Init ==
    /\ program \in {"treat_fastqs", "treat_metadata"}
    /\ pc = "initial_checks"
    /\ fastq_pattern \in GeneralPatterns
    /\ r1_files_pattern \in PairedPatterns
    /\ r2_files_pattern \in PairedPatterns
    /\ \E w \in Worlds(program) :
          /\ dirs = w.dirs
          /\ input_dir = w.input
          /\ output_dir = w.output
    /\ fastqs_in_directory = NoListing
    /\ treatment_table = NoTable
    /\ unique_sample_names = <<>>
    /\ sample_idx = 1
    /\ warning_samples = <<>>
    /\ ops = <<>>
    /\ error = NoError
    /\ report = NoReport
    /\ probe = NoProbe
    /\ metadata = NoTable
    /\ treated_metadata_df = <<>>
    /\ warnings_df = <<>>
    /\ no_warning_columns = <<>>

(***************************************************************************)
(* main() of treat_fastqs.py, and main() of treat_metadata.py up to the    *)
(* loading of the Treatment Template.  An exception ends the run: main()   *)
(* catches it and prints it.                                               *)
(***************************************************************************)
\* the step ends with the exception e, or goes on at next when there is none
Continue(e, next) ==
    IF e.kind # "none"
    THEN pc' = "failed" /\ error' = e
    ELSE pc' = next /\ error' = error

\* 0) Initial checks: the directories
CheckDirectories ==
    /\ pc = "initial_checks"
    /\ LET e == IF program = "treat_fastqs"
                THEN first_exception(
                       <<check_existence_directory_parameter(dirs.input_is_dir, "Input"),
                         check_existence_directory_parameter(dirs.output_is_dir, "Output"),
                         check_directories_are_not_identical(dirs.same_dir)>>)
                ELSE check_existence_directory_parameter(dirs.output_is_dir, "Output")
       IN Continue(e, "check_patterns")
    /\ UNCHANGED <<metadata_vars, program, fastq_pattern, r1_files_pattern, r2_files_pattern, dirs,
                   input_dir, output_dir, fastqs_in_directory, treatment_table,
                   unique_sample_names, sample_idx, warning_samples, ops, report, probe>>

\* 0) Initial checks: the PAIRED patterns
CheckPatterns ==
    /\ pc = "check_patterns"
    /\ Continue(check_fastq_PAIRED_patterns(fastq_pattern, r1_files_pattern, r2_files_pattern),
                IF program = "treat_fastqs" THEN "list_input" ELSE "load_template")
    /\ UNCHANGED <<metadata_vars, program, fastq_pattern, r1_files_pattern, r2_files_pattern, dirs,
                   input_dir, output_dir, fastqs_in_directory, treatment_table,
                   unique_sample_names, sample_idx, warning_samples, ops, report, probe>>

\* 0) Initial checks: the list of fastqs in the Input Directory
ListInputDirectory ==
    /\ pc = "list_input"
    /\ LET e == get_list_fastqs_in_directory(input_dir, fastq_pattern)
       IN /\ Continue(e, "load_template")
          /\ fastqs_in_directory' =
                IF e.kind # "none" THEN fastqs_in_directory
                ELSE [listed |-> TRUE, files |-> fastq_files_of(input_dir, fastq_pattern)]
    /\ UNCHANGED <<metadata_vars, program, fastq_pattern, r1_files_pattern, r2_files_pattern, dirs,
                   input_dir, output_dir, treatment_table,
                   unique_sample_names, sample_idx, warning_samples, ops, report, probe>>

\* 1) pd.read_csv returns the Treatment Template
LoadTemplate ==
    /\ pc = "load_template"
    /\ \E t \in Templates : treatment_table' = t
    /\ pc' = IF program = "treat_fastqs" THEN "check_template" ELSE "tm_check_metadata"
    /\ UNCHANGED <<metadata_vars, program, fastq_pattern, r1_files_pattern, r2_files_pattern, dirs,
                   input_dir, output_dir, fastqs_in_directory,
                   unique_sample_names, sample_idx, warning_samples, ops, error, report, probe>>

\* 1) pd.read_csv raises (no such file, not a table)
LoadTemplateFails ==
    /\ pc = "load_template"
    /\ Continue(OMD_CTK_Exception("read_csv", <<>>, <<>>, <<>>), "failed")
    /\ UNCHANGED <<metadata_vars, program, fastq_pattern, r1_files_pattern, r2_files_pattern, dirs,
                   input_dir, output_dir, fastqs_in_directory, treatment_table,
                   unique_sample_names, sample_idx, warning_samples, ops, report, probe>>

\* 2) Checks related to the treatment file
template_checks(table) ==
    first_exception(
      <<treat_headers_check(TEMPLATE_FINAL_COLUMNS, check_headers(TEMPLATE_FINAL_COLUMNS, table)),
        treat_values_check("fastq_type_values", VALID_FASTQ_TYPES,
                           check_values(VALID_FASTQ_TYPES, Column(table, "fastq_type"))),
        treat_values_check("treatment_values", VALID_TREATMENTS,
                           check_values(VALID_TREATMENTS, Column(table, "treatment"))),
        check_na_in_pandas_dataframe("na_sample_name", Column(table, "sample_name")),
        check_na_in_pandas_dataframe("na_fastq_file_name", Column(table, "fastq_file_name")),
        check_duplicates_in_fastq_names(table)>>)

CheckTemplate ==
    /\ pc = "check_template"
    /\ Continue(template_checks(treatment_table), "check_files")
    /\ UNCHANGED <<metadata_vars, program, fastq_pattern, r1_files_pattern, r2_files_pattern, dirs,
                   input_dir, output_dir, fastqs_in_directory, treatment_table,
                   unique_sample_names, sample_idx, warning_samples, ops, report, probe>>

\* 3) Checks per file
CheckPerFile ==
    /\ pc = "check_files"
    /\ \E absent \in check_fastq_file_exits(Column(treatment_table, "fastq_file_name"),
                                            fastqs_in_directory.files) :
          Continue(first_exception(
                     <<treat_check_fastq_name_type(treatment_table, fastq_pattern,
                                                   r1_files_pattern, r2_files_pattern),
                       absent>>),
                   "check_samples")
    /\ UNCHANGED <<metadata_vars, program, fastq_pattern, r1_files_pattern, r2_files_pattern, dirs,
                   input_dir, output_dir, fastqs_in_directory, treatment_table,
                   unique_sample_names, sample_idx, warning_samples, ops, report, probe>>

\* variant: main does not call check_rename_samples
sample_checks_without_rename(table, unique_samples_list) ==
    first_exception(
      <<check_treatment_for_samples(table, unique_samples_list),
        check_merge_samples(table, unique_samples_list)>>)

\* variant: main calls check_merge_samples before check_rename_samples
sample_checks_merge_first(table, unique_samples_list) ==
    first_exception(
      <<check_treatment_for_samples(table, unique_samples_list),
        check_merge_samples(table, unique_samples_list),
        check_rename_samples(table, unique_samples_list)>>)

\* 4) Checks per sample
sample_checks(table, unique_samples_list) ==
    first_exception(
      <<check_treatment_for_samples(table, unique_samples_list),
        check_rename_samples(table, unique_samples_list),
        check_merge_samples(table, unique_samples_list)>>)

CheckPerSample ==
    /\ pc = "check_samples"
    /\ unique_sample_names' = get_unique_sample_names(treatment_table)
    /\ Continue(sample_checks(treatment_table, get_unique_sample_names(treatment_table)),
                "treat_files")
    /\ UNCHANGED <<metadata_vars, program, fastq_pattern, r1_files_pattern, r2_files_pattern, dirs,
                   input_dir, output_dir, fastqs_in_directory, treatment_table,
                   sample_idx, warning_samples, ops, report, probe>>

\* 5) treat_files: the loop body, for the next sample
TreatSample ==
    /\ pc = "treat_files"
    /\ sample_idx <= Len(unique_sample_names)
    /\ LET sample == unique_sample_names[sample_idx]
           temp_treatment == rows_of_sample(treatment_table, sample)[1].treatment
           plan == sample_operations(treatment_table, sample, fastq_pattern,
                                     r1_files_pattern, r2_files_pattern)
       IN \E outcomes \in outcome_vectors(plan, input_dir) :
             /\ LET after == run_operations([input |-> input_dir, output |-> output_dir],
                                            plan, outcomes)
                IN /\ input_dir' = after.input
                   /\ output_dir' = after.output
             /\ ops' = ops \o attempted_operations(plan, outcomes)
             /\ warning_samples' =
                   warning_samples \o sample_warnings(sample, temp_treatment, outcomes)
    /\ sample_idx' = sample_idx + 1
    /\ UNCHANGED <<metadata_vars, program, pc, fastq_pattern, r1_files_pattern, r2_files_pattern, dirs,
                   fastqs_in_directory, treatment_table,
                   unique_sample_names, error, report, probe>>

\* 5) treat_files: the post-treatment information and the warnings
TreatFilesReport ==
    /\ pc = "treat_files"
    /\ sample_idx > Len(unique_sample_names)
    /\ LET e == get_list_fastqs_in_directory(output_dir, fastq_pattern)
       IN /\ Continue(e, "done")
          /\ IF e.kind # "none"
             THEN UNCHANGED <<warning_samples, report>>
             ELSE \E unique \in Orderings(Range(warning_samples)) :
                     /\ warning_samples' = unique
                     /\ report' = [printed |-> TRUE,
                                   n_output_files |->
                                      Cardinality(fastq_files_of(output_dir, fastq_pattern)),
                                   warning_samples |->
                                      IF Len(unique) > 0 THEN unique ELSE <<>>]
    /\ UNCHANGED <<metadata_vars, program, fastq_pattern, r1_files_pattern, r2_files_pattern, dirs,
                   input_dir, output_dir, fastqs_in_directory, treatment_table,
                   unique_sample_names, sample_idx, ops, probe>>

Next ==
    \/ CheckDirectories
    \/ CheckPatterns
    \/ ListInputDirectory
    \/ LoadTemplate
    \/ LoadTemplateFails
    \/ CheckTemplate
    \/ CheckPerFile
    \/ CheckPerSample
    \/ TreatSample
    \/ TreatFilesReport

Spec == Init /\ [][Next]_vars

(***************************************************************************)
(* The name and pattern functions applied alone, to every file name,       *)
(* declared type and pattern triple within the bounds.                     *)
(***************************************************************************)
Alphabet == {"1", "2", "g"}

RECURSIVE StringsUpTo(_)
StringsUpTo(n) ==
    IF n = 0 THEN {<<>>}
    ELSE StringsUpTo(n - 1)
         \cup {<<c>> \o w : c \in Alphabet, w \in {v \in StringsUpTo(n - 1) : Len(v) = n - 1}}

\* a paired pattern that ends with a shorter paired pattern, also a file name
NestedPattern == <<"2", "1", "g">>

PairedPatternStrings == StringsUpTo(MaxPatternLen) \cup {NestedPattern}

FileNameStrings == StringsUpTo(MaxNameLen) \cup {NestedPattern}

\* the values a fastq_type cell may hold: the valid ones and another one
DeclaredTypes == Range(VALID_FASTQ_TYPES) \cup {"paired"}

InitPatterns ==
    /\ program = "functions"
    /\ pc = "apply"
    /\ fastq_pattern \in StringsUpTo(1)
    /\ r1_files_pattern \in PairedPatternStrings
    /\ r2_files_pattern \in PairedPatternStrings
    /\ dirs = [input_is_dir |-> TRUE, output_is_dir |-> TRUE, same_dir |-> FALSE]
    /\ input_dir = EmptyDirectory
    /\ output_dir = EmptyDirectory
    /\ fastqs_in_directory = NoListing
    /\ treatment_table = NoTable
    /\ unique_sample_names = <<>>
    /\ sample_idx = 1
    /\ warning_samples = <<>>
    /\ ops = <<>>
    /\ error = NoError
    /\ report = NoReport
    /\ probe = NoProbe
    /\ metadata = NoTable
    /\ treated_metadata_df = <<>>
    /\ warnings_df = <<>>
    /\ no_warning_columns = <<>>

ApplyCheckFastqNameType ==
    /\ pc = "apply"
    /\ \E name \in FileNameStrings, type \in DeclaredTypes :
          probe' = [function |-> "check_fastq_name_type",
                    fastq_file_name |-> name,
                    fastq_type |-> type,
                    result |-> check_fastq_name_type(name, type, fastq_pattern,
                                                     r1_files_pattern, r2_files_pattern)]
    /\ pc' = "applied"
    /\ UNCHANGED <<metadata_vars, program, fastq_pattern, r1_files_pattern, r2_files_pattern, dirs,
                   input_dir, output_dir, fastqs_in_directory, treatment_table,
                   unique_sample_names, sample_idx, warning_samples, ops, error, report>>

ApplyCheckPairedPatterns ==
    /\ pc = "apply"
    /\ probe' = [function |-> "check_fastq_PAIRED_patterns",
                 result |-> check_fastq_PAIRED_patterns(fastq_pattern, r1_files_pattern,
                                                        r2_files_pattern)]
    /\ pc' = "applied"
    /\ UNCHANGED <<metadata_vars, program, fastq_pattern, r1_files_pattern, r2_files_pattern, dirs,
                   input_dir, output_dir, fastqs_in_directory, treatment_table,
                   unique_sample_names, sample_idx, warning_samples, ops, error, report>>

\* a row of the raw template: get_fastq_type gives the type of a file of
\* the directory, which the treatment programs check against its name
ApplyGetFastqType ==
    /\ pc = "apply"
    /\ \E name \in FileNameStrings :
          LET type == get_fastq_type(name, r1_files_pattern, r2_files_pattern)
          IN probe' = [function |-> "get_fastq_type",
                       fastq_file_name |-> name,
                       patterns_check |->
                           check_fastq_PAIRED_patterns(fastq_pattern, r1_files_pattern,
                                                       r2_files_pattern),
                       result |-> type,
                       name_check |-> check_fastq_name_type(name, type, fastq_pattern,
                                                            r1_files_pattern,
                                                            r2_files_pattern)]
    /\ pc' = "applied"
    /\ UNCHANGED <<metadata_vars, program, fastq_pattern, r1_files_pattern, r2_files_pattern, dirs,
                   input_dir, output_dir, fastqs_in_directory, treatment_table,
                   unique_sample_names, sample_idx, warning_samples, ops, error, report>>

\* check_fastq_name_type for a file name and each valid fastq_type in turn
ApplyCheckFastqNameTypes ==
    /\ pc = "apply"
    /\ \E name \in FileNameStrings :
          probe' = [function |-> "check_fastq_name_type, each type",
                    fastq_file_name |-> name,
                    patterns_check |->
                        check_fastq_PAIRED_patterns(fastq_pattern, r1_files_pattern,
                                                    r2_files_pattern),
                    results |-> [t \in Range(VALID_FASTQ_TYPES) |->
                                    check_fastq_name_type(name, t, fastq_pattern,
                                                          r1_files_pattern,
                                                          r2_files_pattern)]]
    /\ pc' = "applied"
    /\ UNCHANGED <<metadata_vars, program, fastq_pattern, r1_files_pattern, r2_files_pattern, dirs,
                   input_dir, output_dir, fastqs_in_directory, treatment_table,
                   unique_sample_names, sample_idx, warning_samples, ops, error, report>>

NextPatterns ==
    \/ ApplyCheckFastqNameTypes
    \/ ApplyCheckFastqNameType
    \/ ApplyCheckPairedPatterns
    \/ ApplyGetFastqType

SpecPatterns == InitPatterns /\ [][NextPatterns]_vars

(***************************************************************************)
(* The checks of the file configurations applied alone, to templates of    *)
(* two samples with every number of files of each fastq_type within the    *)
(* bound.                                                                  *)
(***************************************************************************)
IndexChars == <<"1", "2", "A", "B", "C">>

TypeSuffix(fastq_type) ==
    IF fastq_type = "pair1" THEN <<"1", "g">>
    ELSE IF fastq_type = "pair2" THEN <<"2", "g">>
    ELSE <<"g">>

\* the treatments of the rows of a sample: one for all, or two in turn
RowTreatment(option, i) ==
    IF option = "rename+merge"
    THEN (IF i % 2 = 1 THEN "rename" ELSE "merge")
    ELSE option

\* the rows of a sample with n1 pair1, n2 pair2 and n3 single files
SampleRows(sample, option, n1, n2, n3) ==
    LET types == [i \in 1..(n1 + n2 + n3) |->
                    IF i <= n1 THEN "pair1" ELSE IF i <= n1 + n2 THEN "pair2" ELSE "single"]
        index == [i \in 1..(n1 + n2 + n3) |->
                    IF i <= n1 THEN i ELSE IF i <= n1 + n2 THEN i - n1 ELSE i - n1 - n2]
    IN [i \in 1..(n1 + n2 + n3) |->
          Row(sample, sample \o <<IndexChars[index[i]]>> \o TypeSuffix(types[i]),
              types[i], RowTreatment(option, i))]

TreatmentOptions == {"rename", "merge", "copy", "rename+merge"}

SampleBlocks(sample) ==
    {SampleRows(sample, option, n1, n2, n3) :
        option \in TreatmentOptions,
        n1 \in 0..MaxCount, n2 \in 0..MaxCount, n3 \in 0..MaxCount}

InitShapes ==
    /\ program = "functions"
    /\ pc = "apply"
    /\ fastq_pattern = <<"g">>
    /\ r1_files_pattern = <<"1", "g">>
    /\ r2_files_pattern = <<"2", "g">>
    /\ dirs = [input_is_dir |-> TRUE, output_is_dir |-> TRUE, same_dir |-> FALSE]
    /\ input_dir = EmptyDirectory
    /\ output_dir = EmptyDirectory
    /\ fastqs_in_directory = NoListing
    /\ \E a \in SampleBlocks(<<"A">>), b \in SampleBlocks(<<"B">>) :
          treatment_table = Table(a \o b)
    /\ unique_sample_names = get_unique_sample_names(treatment_table)
    /\ sample_idx = 1
    /\ warning_samples = <<>>
    /\ ops = <<>>
    /\ error = NoError
    /\ report = NoReport
    /\ probe = NoProbe
    /\ metadata = NoTable
    /\ treated_metadata_df = <<>>
    /\ warnings_df = <<>>
    /\ no_warning_columns = <<>>

ApplyCheckRenameSamples ==
    /\ pc = "apply"
    /\ probe' = [function |-> "check_rename_samples",
                 result |-> check_rename_samples(treatment_table, unique_sample_names)]
    /\ pc' = "applied"
    /\ UNCHANGED <<metadata_vars, program, fastq_pattern, r1_files_pattern, r2_files_pattern, dirs,
                   input_dir, output_dir, fastqs_in_directory, treatment_table,
                   unique_sample_names, sample_idx, warning_samples, ops, error, report>>

ApplyCheckMergeSamples ==
    /\ pc = "apply"
    /\ probe' = [function |-> "check_merge_samples",
                 result |-> check_merge_samples(treatment_table, unique_sample_names)]
    /\ pc' = "applied"
    /\ UNCHANGED <<metadata_vars, program, fastq_pattern, r1_files_pattern, r2_files_pattern, dirs,
                   input_dir, output_dir, fastqs_in_directory, treatment_table,
                   unique_sample_names, sample_idx, warning_samples, ops, error, report>>

\* treat_files calls merge_mode for a sample whose first row says merge
ApplyMergeMode ==
    /\ pc = "apply"
    /\ \E k \in DOMAIN unique_sample_names :
          LET sample == unique_sample_names[k]
              temp_sample == rows_of_sample(treatment_table, sample)
          IN /\ temp_sample[1].treatment = "merge"
             /\ probe' = [function |-> "merge_mode",
                          sample |-> sample,
                          treatment_check |->
                              check_treatment_for_samples(treatment_table, unique_sample_names),
                          merge_check |->
                              check_merge_samples(treatment_table, unique_sample_names),
                          jobs |-> merge_mode(temp_sample, fastq_pattern,
                                              r1_files_pattern, r2_files_pattern)]
    /\ pc' = "applied"
    /\ UNCHANGED <<metadata_vars, program, fastq_pattern, r1_files_pattern, r2_files_pattern, dirs,
                   input_dir, output_dir, fastqs_in_directory, treatment_table,
                   unique_sample_names, sample_idx, warning_samples, ops, error, report>>

NextShapes ==
    \/ ApplyCheckRenameSamples
    \/ ApplyCheckMergeSamples
    \/ ApplyMergeMode

SpecShapes == InitShapes /\ [][NextShapes]_vars

(***************************************************************************)
(* treat_metadata.py: the fold of a metadata column over the metadata rows *)
(* selected for a final sample.  A cell of the Metadata Table is a string  *)
(* or NaN.                                                                 *)
(***************************************************************************)
\* the columns of the list that the metadata tables of the model have
DEFAULT_ENA_NO_WARNING_COLUMNS == <<"run_accession">>

\* the columns of the list that the metadata tables of the model have
ENA_COLUMNS_IGNORED == <<"fastq_ftp">>

\* the columns of the list that the metadata tables of the model have
ENA_FASTQ_URLS_COLUMNS == <<"fastq_ftp">>

DEFAULT_TREATED_METADATA_COL_NAMES ==
    <<"final_files_sample_name", "original_files_sample_names",
      "treatment_sample_name", "treatment_fastq_type">>

DEFAULT_WARNING_DF_COL_NAMES == <<"final_files_sample_name", "metadata_column_name">>

\* sep.join(list)
RECURSIVE join(_, _)
join(sep, list) ==
    IF list = <<>> THEN <<>>
    ELSE IF Len(list) = 1 THEN list[1]
    ELSE list[1] \o sep \o join(sep, Tail(list))

\* variant: the values are joined as they come in the rows
combine_metadata_rows_as_they_come(final_files_sample_name, filtered_metadata_df, interest_metadata_column, no_warnings_metadata_columns) ==
    LET metadata_col_values ==
            [i \in DOMAIN filtered_metadata_df |->
                filtered_metadata_df[i][interest_metadata_column]]
        metadata_col_values_treated ==
            [i \in DOMAIN metadata_col_values |->
                IF metadata_col_values[i] = NaN THEN <<>> ELSE metadata_col_values[i]]
    IN [result |-> join(<<";">>, metadata_col_values_treated),
        warnings |->
            IF /\ Len(metadata_col_values_treated) > 1
               /\ interest_metadata_column \notin Range(no_warnings_metadata_columns)
            THEN <<[final_files_sample_name |-> final_files_sample_name,
                    metadata_column_name |-> interest_metadata_column]>>
            ELSE <<>>]

\* variant: the warning is decided on the values that are not NaN
combine_metadata_rows_warning_without_na(final_files_sample_name, filtered_metadata_df, interest_metadata_column, no_warnings_metadata_columns) ==
    LET metadata_col_values ==
            [i \in DOMAIN filtered_metadata_df |->
                filtered_metadata_df[i][interest_metadata_column]]
        metadata_col_values_treated ==
            [i \in DOMAIN metadata_col_values |->
                IF metadata_col_values[i] = NaN THEN <<>> ELSE metadata_col_values[i]]
        unique_values_list == SetToSortedList(Range(metadata_col_values_treated))
    IN [result |-> join(<<";">>, unique_values_list),
        warnings |->
            IF /\ Cardinality(Range(metadata_col_values) \ {NaN}) > 1
               /\ interest_metadata_column \notin Range(no_warnings_metadata_columns)
            THEN <<[final_files_sample_name |-> final_files_sample_name,
                    metadata_column_name |-> interest_metadata_column]>>
            ELSE <<>>]

\* variant: the values are sorted but the duplicates are kept
combine_metadata_rows_without_set(final_files_sample_name, filtered_metadata_df, interest_metadata_column, no_warnings_metadata_columns) ==
    LET metadata_col_values ==
            [i \in DOMAIN filtered_metadata_df |->
                filtered_metadata_df[i][interest_metadata_column]]
        metadata_col_values_treated ==
            [i \in DOMAIN metadata_col_values |->
                IF metadata_col_values[i] = NaN THEN <<>> ELSE metadata_col_values[i]]
        values_list == SortStrings(metadata_col_values_treated)
    IN [result |-> join(<<";">>, values_list),
        warnings |->
            IF /\ Len(values_list) > 1
               /\ interest_metadata_column \notin Range(no_warnings_metadata_columns)
            THEN <<[final_files_sample_name |-> final_files_sample_name,
                    metadata_column_name |-> interest_metadata_column]>>
            ELSE <<>>]

\* the string combine_metadata_rows returns and the rows it appends to
\* warnings_df
combine_metadata_rows(final_files_sample_name, filtered_metadata_df, interest_metadata_column, no_warnings_metadata_columns) ==
    LET metadata_col_values ==
            [i \in DOMAIN filtered_metadata_df |->
                filtered_metadata_df[i][interest_metadata_column]]
        metadata_col_values_treated ==
            [i \in DOMAIN metadata_col_values |->
                IF metadata_col_values[i] = NaN THEN <<>> ELSE metadata_col_values[i]]
        unique_values_list == SetToSortedList(Range(metadata_col_values_treated))
    IN [result |-> join(<<";">>, unique_values_list),
        warnings |->
            IF /\ Len(unique_values_list) > 1
               /\ interest_metadata_column \notin Range(no_warnings_metadata_columns)
            THEN <<[final_files_sample_name |-> final_files_sample_name,
                    metadata_column_name |-> interest_metadata_column]>>
            ELSE <<>>]

(***************************************************************************)
(* combine_metadata_rows applied alone, call after call, to every list of  *)
(* at most MaxFoldRows metadata rows, column and no-warning list.          *)
(***************************************************************************)
MetadataRow(run_accession, library_layout, fastq_ftp) ==
    [run_accession |-> run_accession, library_layout |-> library_layout,
     fastq_ftp |-> fastq_ftp]

PAIRED == <<"P", "A", "I", "R", "E", "D">>

SINGLE == <<"S", "I", "N", "G", "L", "E">>

\* the metadata rows a fold may be handed
FoldRowPool ==
    << MetadataRow(<<"1">>, PAIRED, <<"/", "X", "g">>),
       MetadataRow(<<"2">>, PAIRED, <<"/", "Y", "g">>),
       MetadataRow(<<"3">>, SINGLE, <<"/", "Z", "g">>),
       MetadataRow(<<"1", "0">>, NaN, <<"/", "A", "g">>),
       MetadataRow(<<"1">>, <<"P", "A">>, <<"/", "B", "g">>) >>

RECURSIVE ListsUpTo(_, _)
ListsUpTo(S, n) ==
    IF n = 0 THEN {<<>>}
    ELSE ListsUpTo(S, n - 1)
         \cup {<<x>> \o l : x \in S, l \in {q \in ListsUpTo(S, n - 1) : Len(q) = n - 1}}

\* the no-warning lists: the default one, and with --extra_no_warning_columns
NoWarningLists ==
    {DEFAULT_ENA_NO_WARNING_COLUMNS, DEFAULT_ENA_NO_WARNING_COLUMNS \o <<"library_layout">>}

InitFold ==
    /\ program = "treat_metadata"
    /\ pc = "treat_metadata"
    /\ fastq_pattern = <<"g">>
    /\ r1_files_pattern = <<"1", "g">>
    /\ r2_files_pattern = <<"2", "g">>
    /\ dirs = [input_is_dir |-> TRUE, output_is_dir |-> TRUE, same_dir |-> FALSE]
    /\ input_dir = EmptyDirectory
    /\ output_dir = EmptyDirectory
    /\ fastqs_in_directory = NoListing
    /\ treatment_table = NoTable
    /\ unique_sample_names = <<>>
    /\ sample_idx = 1
    /\ warning_samples = <<>>
    /\ ops = <<>>
    /\ error = NoError
    /\ report = NoReport
    /\ probe = NoProbe
    /\ metadata = NoTable
    /\ treated_metadata_df = <<>>
    /\ warnings_df = <<>>
    /\ no_warning_columns = <<>>

ApplyCombineMetadataRows ==
    /\ Len(warnings_df) < MaxWarnings
    /\ \E rows \in ListsUpTo(Range(FoldRowPool), MaxFoldRows),
          column \in {"run_accession", "library_layout"},
          nw \in NoWarningLists :
          LET fold == combine_metadata_rows(<<"X">>, rows, column, nw)
          IN /\ probe' = [function |-> "combine_metadata_rows",
                          rows |-> rows,
                          column |-> column,
                          no_warning_columns |-> nw,
                          result |-> fold.result,
                          n_warnings |-> Len(fold.warnings)]
             /\ warnings_df' = warnings_df \o fold.warnings
    /\ UNCHANGED <<program, pc, fastq_pattern, r1_files_pattern, r2_files_pattern, dirs,
                   input_dir, output_dir, fastqs_in_directory, treatment_table,
                   unique_sample_names, sample_idx, warning_samples, ops, error,
                   report, metadata, treated_metadata_df, no_warning_columns>>

NextFold == ApplyCombineMetadataRows

SpecFold == InitFold /\ [][NextFold]_vars

(***************************************************************************)
(* treat_metadata.py in ENA mode: the original sample names of a sample,   *)
(* the selection of its metadata rows and its treated rows.                *)
(***************************************************************************)
\* default of --sample_name_sep
sample_name_separator == <<"_">>

\* default of --sample_name_sep_appearance
sep_appearance == 1

\* default of --ena_download_column
ena_download_column == "fastq_ftp"

\* str.replace(old, '', regex = False): every occurrence, from the left
RECURSIVE str_remove(_, _)
str_remove(s, old) ==
    IF old = <<>> \/ Len(s) < Len(old) THEN s
    ELSE IF SubSeq(s, 1, Len(old)) = old
    THEN str_remove(SubSeq(s, Len(old) + 1, Len(s)), old)
    ELSE <<Head(s)>> \o str_remove(Tail(s), old)

\* str.split(sep)
RECURSIVE str_split(_, _)
str_split(s, sep) ==
    LET cuts == {k \in 1..(Len(s) - Len(sep) + 1) : SubSeq(s, k, k + Len(sep) - 1) = sep}
    IN IF cuts = {} THEN <<s>>
       ELSE LET k == CHOOSE c \in cuts : \A d \in cuts : c <= d
            IN <<SubSeq(s, 1, k - 1)>> \o str_split(SubSeq(s, k + Len(sep), Len(s)), sep)

\* x[:n]
list_head(x, n) == SubSeq(x, 1, IF n < Len(x) THEN n ELSE Len(x))

\* x[n:]
list_tail(x, n) == SubSeq(x, n + 1, Len(x))

\* variant: the original names in the order of the rows, without sort()
unique_original_sample_names_in_row_order(sample_treatment_df, fp, sep, n_sep) ==
    LET names == [i \in DOMAIN sample_treatment_df |->
                    join(sep, list_head(str_split(str_remove(
                        sample_treatment_df[i].fastq_file_name, fp), sep), n_sep))]
    IN SelectByFlag(names, [i \in DOMAIN names |-> \A j \in 1..(i - 1) : names[j] # names[i]])

unique_original_sample_names(sample_treatment_df, fp, sep, n_sep) ==
    LET original_fastq_names_without_extension ==
            [i \in DOMAIN sample_treatment_df |->
                str_remove(sample_treatment_df[i].fastq_file_name, fp)]
    IN SetToSortedList(
          {join(sep, list_head(str_split(original_fastq_names_without_extension[i], sep),
                               n_sep)) :
              i \in DOMAIN original_fastq_names_without_extension})

\* the list comes out of a set, in no particular order; it is only used
\* as the alternatives of a regular expression: here in sorted order
get_possible_files_suffixes(sample_treatment_df, fp, sep, n_sep) ==
    LET original_fastq_names_without_extension ==
            [i \in DOMAIN sample_treatment_df |->
                str_remove(sample_treatment_df[i].fastq_file_name, fp)]
        unique_rest ==
            SetToSortedList(
              {join(sep, list_tail(str_split(original_fastq_names_without_extension[i], sep),
                                   n_sep)) :
                  i \in DOMAIN original_fastq_names_without_extension})
    IN [i \in DOMAIN unique_rest |-> sep \o unique_rest[i] \o fp] \o <<fp>>

\* re.search of one alternative: its characters match themselves, but for
\* '.', which matches any character
regex_found(alternative, cell) ==
    \E k \in 1..(Len(cell) - Len(alternative) + 1) :
        \A i \in 1..Len(alternative) :
            alternative[i] = "." \/ alternative[i] = cell[k + i - 1]

\* Series.str.contains('|'.join(alternatives)) for one cell
str_contains(cell, alternatives) ==
    \E i \in DOMAIN alternatives : regex_found(alternatives[i], cell)

\* metadata_df[metadata_df[column].str.contains('|'.join(names))]
filter_metadata(metadata_df, column, names) ==
    SelectSeq(metadata_df, LAMBDA row : str_contains(row[column], names))

\* the lists the check prints (the second one only when the first is
\* empty) go in names; the message of the exception names no file
check_treatment_fastqs_in_metadata(treatment_df, metadata_df, column) ==
    LET n_matches == [i \in DOMAIN treatment_df |->
                        Len(filter_metadata(metadata_df, column,
                                            <<treatment_df[i].fastq_file_name>>))]
        names == [i \in DOMAIN treatment_df |-> treatment_df[i].fastq_file_name]
        fastqs_warnings_more_than_one_match ==
            SelectByFlag(names, [i \in DOMAIN names |-> n_matches[i] > 1])
        fastqs_warnings_zero_matches ==
            SelectByFlag(names, [i \in DOMAIN names |-> n_matches[i] = 0])
    IN IF \/ Len(fastqs_warnings_more_than_one_match) > 0
          \/ Len(fastqs_warnings_zero_matches) > 0
       THEN OMD_CTK_Exception("no_unique_match",
                              IF Len(fastqs_warnings_more_than_one_match) > 0
                              THEN fastqs_warnings_more_than_one_match
                              ELSE fastqs_warnings_zero_matches,
                              <<>>, <<>>)
       ELSE NoError

\* the columns of a metadata table, in the order of the file
MetadataColumns == <<"run_accession", "library_layout", "fastq_ftp">>

\* [i for i in list(metadata.columns) if i not in ENA_COLUMNS_IGNORED]
interest_metadata_columns ==
    SelectSeq(MetadataColumns, LAMBDA c : c \notin Range(ENA_COLUMNS_IGNORED))

\* list(set(sample_treatment_df['fastq_type'])), sorted, joined with ';'
joined_fastq_types(sample_treatment_df) ==
    LET present == {sample_treatment_df[i].fastq_type : i \in DOMAIN sample_treatment_df}
        unique_fastq_types == SelectSeq(VALID_FASTQ_TYPES, LAMBDA t : t \in present)
    IN join(<<";">>, [i \in DOMAIN unique_fastq_types |-> <<unique_fastq_types[i]>>])

\* a line of treated_metadata_df and the warnings of its folds
metadata_line(final_name, original_names, treatment_sample_name, sample_treatment_df, selected_metadata_df, no_warnings_metadata_columns) ==
    LET folds == [i \in DOMAIN interest_metadata_columns |->
                    combine_metadata_rows(final_name, selected_metadata_df,
                                          interest_metadata_columns[i],
                                          no_warnings_metadata_columns)]
        fold_of(c) == folds[CHOOSE i \in DOMAIN interest_metadata_columns :
                                interest_metadata_columns[i] = c]
        RECURSIVE all_warnings(_)
        all_warnings(i) ==
            IF i > Len(folds) THEN <<>> ELSE folds[i].warnings \o all_warnings(i + 1)
    IN [line |->
          [c \in Range(DEFAULT_TREATED_METADATA_COL_NAMES) \cup Range(interest_metadata_columns) |->
              IF c = "final_files_sample_name" THEN final_name
              ELSE IF c = "original_files_sample_names" THEN original_names
              ELSE IF c = "treatment_sample_name" THEN treatment_sample_name
              ELSE IF c = "treatment_fastq_type" THEN joined_fastq_types(sample_treatment_df)
              ELSE fold_of(c).result],
        warnings |-> all_warnings(1)]

\* variant: the final name of the line is the list of original names
other_modes_final_name_from_files(sample_treatment_df, treatment_sample_name, metadata_df, no_warnings_metadata_columns, fp, sep, n_sep) ==
    LET original_sample_names ==
            unique_original_sample_names(sample_treatment_df, fp, sep, n_sep)
        sample_tt_fastq_file_names ==
            [i \in DOMAIN sample_treatment_df |-> sample_treatment_df[i].fastq_file_name]
        sample_metadata_df ==
            filter_metadata(metadata_df, ena_download_column, sample_tt_fastq_file_names)
        new == metadata_line(join(<<";">>, original_sample_names),
                             join(<<";">>, original_sample_names),
                             treatment_sample_name, sample_treatment_df,
                             sample_metadata_df, no_warnings_metadata_columns)
    IN [lines |-> <<new.line>>, warnings |-> new.warnings]

\* the lines other_modes_ENA_metadata appends to treated_metadata_df and
\* the warnings it appends to warnings_df
other_modes_ENA_metadata(sample_treatment_df, treatment_sample_name, metadata_df, no_warnings_metadata_columns, fp, sep, n_sep) ==
    LET original_sample_names ==
            unique_original_sample_names(sample_treatment_df, fp, sep, n_sep)
        sample_tt_fastq_file_names ==
            [i \in DOMAIN sample_treatment_df |-> sample_treatment_df[i].fastq_file_name]
        sample_metadata_df ==
            filter_metadata(metadata_df, ena_download_column, sample_tt_fastq_file_names)
        new == metadata_line(treatment_sample_name, join(<<";">>, original_sample_names),
                             treatment_sample_name, sample_treatment_df,
                             sample_metadata_df, no_warnings_metadata_columns)
    IN [lines |-> <<new.line>>, warnings |-> new.warnings]

\* the lines copy_only_mode_ENA_metadata appends to treated_metadata_df,
\* one per original sample name, and the warnings it appends to warnings_df
RECURSIVE copy_lines(_, _, _, _, _, _)
copy_lines(original_sample_names, possible_fastq_file_suffixes, sample_treatment_df, treatment_sample_name, metadata_df, no_warnings_metadata_columns) ==
    IF original_sample_names = <<>> THEN [lines |-> <<>>, warnings |-> <<>>]
    ELSE LET sample == Head(original_sample_names)
             temp_possible_fastq_names ==
                 [i \in DOMAIN possible_fastq_file_suffixes |->
                     sample \o possible_fastq_file_suffixes[i]]
             temp_sample_metadata_df ==
                 filter_metadata(metadata_df, ena_download_column, temp_possible_fastq_names)
             new == metadata_line(sample, sample, treatment_sample_name,
                                  sample_treatment_df, temp_sample_metadata_df,
                                  no_warnings_metadata_columns)
             rest == copy_lines(Tail(original_sample_names), possible_fastq_file_suffixes,
                                sample_treatment_df, treatment_sample_name, metadata_df,
                                no_warnings_metadata_columns)
         IN [lines |-> <<new.line>> \o rest.lines,
             warnings |-> new.warnings \o rest.warnings]

\* variant: a copy sample is treated like a sample of the other modes
copy_only_mode_as_other_modes(sample_treatment_df, treatment_sample_name, metadata_df, no_warnings_metadata_columns, fp, sep, n_sep) ==
    other_modes_ENA_metadata(sample_treatment_df, treatment_sample_name, metadata_df,
                             no_warnings_metadata_columns, fp, sep, n_sep)

copy_only_mode_ENA_metadata(sample_treatment_df, treatment_sample_name, metadata_df, no_warnings_metadata_columns, fp, sep, n_sep) ==
    copy_lines(unique_original_sample_names(sample_treatment_df, fp, sep, n_sep),
               get_possible_files_suffixes(sample_treatment_df, fp, sep, n_sep),
               sample_treatment_df, treatment_sample_name, metadata_df,
               no_warnings_metadata_columns)

\* variant: a sample with a warning gets no line
treat_ENA_metadata_sample_warning_drops_line(treatment_df, sample, metadata_df, no_warnings_metadata_columns, fp, sep, n_sep) ==
    LET temp_sample == rows_of_sample(treatment_df, sample)
        treated == IF temp_sample[1].treatment = "copy"
                   THEN copy_only_mode_ENA_metadata(temp_sample, sample, metadata_df.rows,
                                                    no_warnings_metadata_columns, fp, sep, n_sep)
                   ELSE other_modes_ENA_metadata(temp_sample, sample, metadata_df.rows,
                                                 no_warnings_metadata_columns, fp, sep, n_sep)
    IN [lines |-> IF treated.warnings = <<>> THEN treated.lines ELSE <<>>,
        warnings |-> treated.warnings]

\* the body of the loop of treat_ENA_metadata for one sample
treat_ENA_metadata_sample(treatment_df, sample, metadata_df, no_warnings_metadata_columns, fp, sep, n_sep) ==
    LET temp_sample == rows_of_sample(treatment_df, sample)
        temp_treatment == temp_sample[1].treatment
    IN IF temp_treatment = "copy"
       THEN copy_only_mode_ENA_metadata(temp_sample, sample, metadata_df.rows,
                                        no_warnings_metadata_columns, fp, sep, n_sep)
       ELSE other_modes_ENA_metadata(temp_sample, sample, metadata_df.rows,
                                     no_warnings_metadata_columns, fp, sep, n_sep)

\* treat_ENA_metadata: the lines and the warnings of the samples of the
\* list, one after the other
RECURSIVE treat_ENA_metadata(_, _, _, _, _, _, _)
treat_ENA_metadata(treatment_df, unique_samples_list, metadata_df, no_warnings_metadata_columns, fp, sep, n_sep) ==
    IF unique_samples_list = <<>> THEN [lines |-> <<>>, warnings |-> <<>>]
    ELSE LET first == treat_ENA_metadata_sample(treatment_df, Head(unique_samples_list),
                                                metadata_df, no_warnings_metadata_columns,
                                                fp, sep, n_sep)
             rest == treat_ENA_metadata(treatment_df, Tail(unique_samples_list), metadata_df,
                                        no_warnings_metadata_columns, fp, sep, n_sep)
         IN [lines |-> first.lines \o rest.lines,
             warnings |-> first.warnings \o rest.warnings]

(***************************************************************************)
(* The names of the files treat_metadata.py saves.                         *)
(***************************************************************************)
\* str(counter)
RECURSIVE str(_)
str(n) ==
    LET digit == <<"0", "1", "2", "3", "4", "5", "6", "7", "8", "9">>
    IN IF n < 10 THEN <<digit[n + 1]>> ELSE str(n \div 10) \o <<digit[(n % 10) + 1]>>

\* the while loop of treat_duplicated_outfiles
RECURSIVE first_free_file_name(_, _, _, _)
first_free_file_name(files, file_extension, file_name, counter) ==
    LET new_file_name == str_split(file_name, file_extension)[1]
                            \o <<"(">> \o str(counter) \o <<")">> \o file_extension
    IN IF new_file_name \in files
       THEN first_free_file_name(files, file_extension, file_name, counter + 1)
       ELSE new_file_name

\* variant: the name with counter 1, without the loop
treat_duplicated_outfiles_counter_one(files, file_extension, file_name) ==
    IF file_name \in files
    THEN str_split(file_name, file_extension)[1] \o <<"(", "1", ")">> \o file_extension
    ELSE file_name

treat_duplicated_outfiles(files, file_extension, file_name) ==
    IF file_name \in files
    THEN first_free_file_name(files, file_extension, file_name, 1)
    ELSE file_name

\* the name of the file, in the output directory
treat_output_directory_parameter_outfiles(file_name, directory) ==
    treat_duplicated_outfiles(DOMAIN directory, <<".", "t", "s", "v">>, file_name)

(***************************************************************************)
(* main() of treat_metadata.py in ENA mode, from the loading of the        *)
(* Metadata Table on.                                                      *)
(***************************************************************************)
\* the rows a Treatment Template of this specification is made of
MetadataTemplatePool ==
    << Row(<<"X">>, <<"X", "_", "1", ".", "g">>, "pair1", "rename"),
       Row(<<"X">>, <<"X", "_", "2", ".", "g">>, "pair2", "rename"),
       Row(<<"M">>, <<"Y", ".", "g">>, "single", "merge"),
       Row(<<"M">>, <<"Z", ".", "g">>, "single", "merge"),
       Row(<<"C">>, <<"Y", ".", "g">>, "single", "copy"),
       Row(<<"C">>, <<"Z", ".", "g">>, "single", "copy"),
       Row(<<"C">>, <<"Y", "_", "1", ".", "g">>, "pair1", "copy"),
       Row(<<"D">>, <<"Y", "_", "2", ".", "g">>, "pair2", "copy"),
       Row(<<"Y">>, <<"Z", ".", "g">>, "single", "rename") >>

MetadataTemplates ==
    {Table([i \in DOMAIN q |-> MetadataTemplatePool[q[i]]]) :
        q \in {Ascending(S) : S \in SubsetsUpTo(Len(MetadataTemplatePool), MaxTemplateRows)}}

\* the rows a Metadata Table of this specification is made of
MetadataRowPool ==
    << MetadataRow(<<"1">>, PAIRED,
                   <<"/", "X", "_", "1", ".", "g", ";", "/", "X", "_", "2", ".", "g">>),
       MetadataRow(<<"2">>, SINGLE, <<"/", "Y", ".", "g">>),
       MetadataRow(<<"3">>, PAIRED, <<"/", "Z", ".", "g">>),
       MetadataRow(<<"3">>, NaN, <<"/", "Z", ".", "g">>),
       MetadataRow(<<"3">>, SINGLE, <<"/", "Z", ".", "g">>),
       MetadataRow(<<"4">>, PAIRED,
                   <<"/", "Y", "_", "1", ".", "g", ";", "/", "Y", "_", "2", ".", "g">>) >>

MetadataTable(rows) ==
    [loaded |-> TRUE, columns |-> Range(MetadataColumns), rows |-> rows]

\* a table without the column of the download links
HeaderlessMetadataTable ==
    [loaded |-> TRUE, columns |-> Range(MetadataColumns) \ {"fastq_ftp"}, rows |-> <<>>]

MetadataTables ==
    {MetadataTable([i \in DOMAIN q |-> MetadataRowPool[q[i]]]) :
        q \in {Ascending(S) : S \in SubsetsUpTo(Len(MetadataRowPool), MaxMetadataRows)}}
    \cup {HeaderlessMetadataTable}

\* metadata_table_path.split('/')[-1]
metadata_table_name == <<"m", ".", "t", "s", "v">>

\* 'treated_' + the name of the Metadata Table
outfile_name == <<"t", "r", "e", "a", "t", "e", "d", "_">> \o metadata_table_name

\* 'warning_report_4_treated_' + the name of the Metadata Table
outreport_name ==
    <<"w", "a", "r", "n", "i", "n", "g", "_", "r", "e", "p", "o", "r", "t", "_", "4", "_">>
        \o outfile_name

\* the output directories: empty, or holding the files of an earlier run
MetadataOutputDirectories ==
    { EmptyDirectory,
      [n \in {outfile_name, outreport_name} |-> <<>>] }

InitMetadata ==
    /\ program = "treat_metadata"
    /\ pc = "tm_check_metadata"
    /\ fastq_pattern = <<".", "g">>
    /\ r1_files_pattern = <<"_", "1", ".", "g">>
    /\ r2_files_pattern = <<"_", "2", ".", "g">>
    /\ dirs = [input_is_dir |-> TRUE, output_is_dir |-> TRUE, same_dir |-> FALSE]
    /\ input_dir = EmptyDirectory
    /\ output_dir \in MetadataOutputDirectories
    /\ fastqs_in_directory = NoListing
    /\ treatment_table \in MetadataTemplates
    /\ unique_sample_names = <<>>
    /\ sample_idx = 1
    /\ warning_samples = <<>>
    /\ ops = <<>>
    /\ error = NoError
    /\ report = NoReport
    /\ probe = NoProbe
    /\ metadata \in MetadataTables
    /\ treated_metadata_df = <<>>
    /\ warnings_df = <<>>
    /\ no_warning_columns \in NoWarningLists

\* 2) to 5) the checks of the Metadata Table, of the Treatment Template and
\* of the reference between them
metadata_checks(table, metadata_table, fp, R1_pattern, R2_pattern) ==
    first_exception(
      <<treat_headers_check(DEFAULT_ENA_NO_WARNING_COLUMNS \o ENA_FASTQ_URLS_COLUMNS,
                            check_headers(DEFAULT_ENA_NO_WARNING_COLUMNS \o ENA_FASTQ_URLS_COLUMNS,
                                          metadata_table)),
        template_checks(table),
        treat_check_fastq_name_type(table, fp, R1_pattern, R2_pattern),
        check_treatment_fastqs_in_metadata(table.rows, metadata_table.rows,
                                           ena_download_column)>>)

CheckMetadata ==
    /\ pc = "tm_check_metadata"
    /\ Continue(metadata_checks(treatment_table, metadata, fastq_pattern,
                                r1_files_pattern, r2_files_pattern),
                "tm_check_samples")
    /\ UNCHANGED <<metadata_vars, program, fastq_pattern, r1_files_pattern, r2_files_pattern, dirs,
                   input_dir, output_dir, fastqs_in_directory, treatment_table,
                   unique_sample_names, sample_idx, warning_samples, ops, report, probe>>

\* 6) Checks per sample
CheckMetadataSamples ==
    /\ pc = "tm_check_samples"
    /\ unique_sample_names' = get_unique_sample_names(treatment_table)
    /\ Continue(sample_checks(treatment_table, get_unique_sample_names(treatment_table)),
                "tm_treat")
    /\ UNCHANGED <<metadata_vars, program, fastq_pattern, r1_files_pattern, r2_files_pattern, dirs,
                   input_dir, output_dir, fastqs_in_directory, treatment_table,
                   sample_idx, warning_samples, ops, report, probe>>

\* 7) treat_ENA_metadata: the loop body, for the next sample
TreatMetadataSample ==
    /\ pc = "tm_treat"
    /\ sample_idx <= Len(unique_sample_names)
    /\ LET treated == treat_ENA_metadata_sample(treatment_table,
                                                unique_sample_names[sample_idx], metadata,
                                                no_warning_columns, fastq_pattern,
                                                sample_name_separator, sep_appearance)
       IN /\ treated_metadata_df' = treated_metadata_df \o treated.lines
          /\ warnings_df' = warnings_df \o treated.warnings
    /\ sample_idx' = sample_idx + 1
    /\ UNCHANGED <<program, pc, fastq_pattern, r1_files_pattern, r2_files_pattern, dirs,
                   input_dir, output_dir, fastqs_in_directory, treatment_table,
                   unique_sample_names, warning_samples, ops, error, report, probe,
                   metadata, no_warning_columns>>

\* 8) and 9) the treated table is saved, and the warning report when there
\* are warnings
SaveTreatedMetadata ==
    /\ pc = "tm_treat"
    /\ sample_idx > Len(unique_sample_names)
    /\ LET with_table ==
               write_file(output_dir,
                          treat_output_directory_parameter_outfiles(outfile_name, output_dir),
                          treated_metadata_df)
       IN output_dir' =
             IF Len(warnings_df) > 0
             THEN write_file(with_table,
                             treat_output_directory_parameter_outfiles(outreport_name,
                                                                       with_table),
                             warnings_df)
             ELSE with_table
    /\ pc' = "done"
    /\ UNCHANGED <<metadata_vars, program, fastq_pattern, r1_files_pattern, r2_files_pattern, dirs,
                   input_dir, fastqs_in_directory, treatment_table,
                   unique_sample_names, sample_idx, warning_samples, ops, error, report, probe>>

NextMetadata ==
    \/ CheckMetadata
    \/ CheckMetadataSamples
    \/ TreatMetadataSample
    \/ SaveTreatedMetadata

SpecMetadata == InitMetadata /\ [][NextMetadata]_vars

(***************************************************************************)
(* treat_output_directory_parameter_outfiles applied alone, to every       *)
(* output file name and every listing of the output directory made of the  *)
(* names below.                                                            *)
(***************************************************************************)
\* names of output files: the name of a table, the same with counters, a
\* name that does not end with the extension, a name that holds it twice
OutfileNames ==
    { <<"m", ".", "t", "s", "v">>,
      <<"m", "(", "1", ")", ".", "t", "s", "v">>,
      <<"m", "(", "2", ")", ".", "t", "s", "v">>,
      <<"m", "(", "3", ")", ".", "t", "s", "v">>,
      <<"m", ".", "t", "x", "t">>,
      <<"m", ".", "t", "x", "t", "(", "1", ")", ".", "t", "s", "v">>,
      <<"m", ".", "t", "s", "v", ".", "t", "s", "v">> }

InitOutfiles ==
    /\ program = "functions"
    /\ pc = "apply"
    /\ fastq_pattern = <<"g">>
    /\ r1_files_pattern = <<"1", "g">>
    /\ r2_files_pattern = <<"2", "g">>
    /\ dirs = [input_is_dir |-> TRUE, output_is_dir |-> TRUE, same_dir |-> FALSE]
    /\ input_dir = EmptyDirectory
    /\ output_dir \in {[n \in files |-> <<>>] : files \in SUBSET OutfileNames}
    /\ fastqs_in_directory = NoListing
    /\ treatment_table = NoTable
    /\ unique_sample_names = <<>>
    /\ sample_idx = 1
    /\ warning_samples = <<>>
    /\ ops = <<>>
    /\ error = NoError
    /\ report = NoReport
    /\ probe = NoProbe
    /\ metadata = NoTable
    /\ treated_metadata_df = <<>>
    /\ warnings_df = <<>>
    /\ no_warning_columns = <<>>

ApplyTreatOutputDirectoryParameterOutfiles ==
    /\ pc = "apply"
    /\ \E file_name \in OutfileNames :
          probe' = [function |-> "treat_output_directory_parameter_outfiles",
                    file_name |-> file_name,
                    result |-> treat_output_directory_parameter_outfiles(file_name,
                                                                         output_dir)]
    /\ pc' = "applied"
    /\ UNCHANGED <<metadata_vars, program, fastq_pattern, r1_files_pattern, r2_files_pattern, dirs,
                   input_dir, output_dir, fastqs_in_directory, treatment_table,
                   unique_sample_names, sample_idx, warning_samples, ops, error, report>>

NextOutfiles == ApplyTreatOutputDirectoryParameterOutfiles

SpecOutfiles == InitOutfiles /\ [][NextOutfiles]_vars

(***************************************************************************)
(* Properties.  They are stated on the template, the patterns and the     *)
(* directories themselves, not with the operators of the checks.           *)
(***************************************************************************)
\* p is a suffix of s
IsSuffix(p, s) == \E k \in 0..Len(s) : SubSeq(s, k + 1, Len(s)) = p

TemplateRows == treatment_table.rows

TemplateSamples == {TemplateRows[i].sample_name : i \in DOMAIN TemplateRows}

RowsOf(s) == {i \in DOMAIN TemplateRows : TemplateRows[i].sample_name = s}

NumberOf(s, t) == Cardinality({i \in RowsOf(s) : TemplateRows[i].fastq_type = t})

\* (n_pair1, n_pair2, n_single) of a sample
Triple(s) == <<NumberOf(s, "pair1"), NumberOf(s, "pair2"), NumberOf(s, "single")>>

TreatmentsOf(s) == {TemplateRows[i].treatment : i \in RowsOf(s)}

RenameShapes == {<<1, 1, 1>>, <<1, 1, 0>>, <<0, 0, 1>>}

IsMergeShape(t) ==
    \E k \in 2..Len(TemplateRows) : t \in {<<k, k, k>>, <<k, k, 0>>, <<0, 0, k>>}

MixedSamples == {s \in TemplateSamples : Cardinality(TreatmentsOf(s)) > 1}

BadRenameSamples ==
    {s \in TemplateSamples : "rename" \in TreatmentsOf(s) /\ Triple(s) \notin RenameShapes}

BadMergeSamples ==
    {s \in TemplateSamples : "merge" \in TreatmentsOf(s) /\ ~IsMergeShape(Triple(s))}

\* the samples an exception lists with their triples
ReportedConfigs(e) ==
    {<<e.configs[i].sample,
       <<e.configs[i].n_pair1, e.configs[i].n_pair2, e.configs[i].n_single>>>> :
        i \in DOMAIN e.configs}

\* the samples an exception names, with or without their triple
ReportedSamples(e) == Range(e.names) \cup {e.configs[i].sample : i \in DOMAIN e.configs}

DirectoryKinds == {"not_a_directory", "same_directories"}

PatternKinds == {"patterns_not_matching", "patterns_identical", "pattern_is_fastq_pattern"}

SampleKinds == {"mixed_treatments", "rename_configuration", "merge_configuration"}

\* the run failed on the listing of the output store, at the end of treat_files
FailedAtReport ==
    pc = "failed" /\ error.kind = "no_fastq_files" /\ fastqs_in_directory.listed

\* nothing was written: no file operation was attempted and the output
\* store is as it was when the program started
NothingWritten ==
    /\ ops = <<>>
    /\ output_dir \in OutputDirectories \cup InputDirectories \cup {EmptyDirectory}

TreatmentCheckRan ==
    \/ pc \in {"treat_files", "done"}
    \/ pc = "failed" /\ error.kind \in SampleKinds
    \/ FailedAtReport

\* C2: check_treatment_for_samples fails the run iff some sample has rows
\* with more than one treatment value; its exception lists every such
\* sample and no other, and no file operation has been attempted.
C2_MixedTreatments ==
    TreatmentCheckRan =>
        /\ (error.kind = "mixed_treatments") <=> (MixedSamples # {})
        /\ error.kind = "mixed_treatments" =>
              /\ Range(error.names) = MixedSamples
              /\ pc = "failed"
              /\ NothingWritten

\* two samples of the template have mixed treatments and both are listed
C2_Witness ==
    /\ program = "treat_fastqs"
    /\ pc = "failed"
    /\ error.kind = "mixed_treatments"
    /\ Cardinality(MixedSamples) = 2
    /\ Len(error.names) = 2

\* the file name agrees with the declared type of row i
NameAgrees(i) ==
    LET n == TemplateRows[i].fastq_file_name
        t == TemplateRows[i].fastq_type
    IN \/ t = "pair1" /\ IsSuffix(r1_files_pattern, n)
       \/ t = "pair2" /\ IsSuffix(r2_files_pattern, n)
       \/ /\ t = "single"
          /\ IsSuffix(fastq_pattern, n)
          /\ ~IsSuffix(r1_files_pattern, n)
          /\ ~IsSuffix(r2_files_pattern, n)

\* the rows that repeat the file name of an earlier row
RepeatingRows ==
    {i \in DOMAIN TemplateRows :
        \E j \in 1..(i - 1) : TemplateRows[j].fastq_file_name = TemplateRows[i].fastq_file_name}

\* the file names of the template that the listing of the input store lacks
AbsentFiles ==
    {TemplateRows[i].fastq_file_name : i \in DOMAIN TemplateRows}
        \ {n \in DOMAIN input_dir : IsSuffix(fastq_pattern, n)}

\* every rule of the template holds
ValidTemplate ==
    /\ treatment_table.loaded
    /\ {"sample_name", "fastq_file_name", "fastq_type", "treatment"} \subseteq treatment_table.columns
    /\ \A i \in DOMAIN TemplateRows :
          /\ TemplateRows[i].fastq_type \in {"pair1", "pair2", "single"}
          /\ TemplateRows[i].treatment \in {"merge", "copy", "rename"}
          /\ TemplateRows[i].sample_name # NaN
          /\ TemplateRows[i].fastq_file_name # NaN
          /\ NameAgrees(i)
    /\ RepeatingRows = {}
    /\ AbsentFiles = {}
    /\ MixedSamples = {}
    /\ BadRenameSamples = {}
    /\ BadMergeSamples = {}

\* C3: in treat_fastqs no file is written to the output store in a run
\* where a template check fails: whenever a file operation has been
\* attempted or the output store differs from what the run found, every
\* rule of the template holds.
C3_NoWriteBeforeChecksPass ==
    program = "treat_fastqs" => (ValidTemplate \/ NothingWritten)

\* the last of the checks fails and nothing has been written
C3_Witness ==
    /\ program = "treat_fastqs"
    /\ pc = "failed"
    /\ error.kind = "merge_configuration"
    /\ ~ValidTemplate
    /\ NothingWritten

TableKinds ==
    {"fastq_type_values", "treatment_values", "na_sample_name", "na_fastq_file_name",
     "duplicates", "name_type_mismatch"}

\* the rows of the template that break the rule an exception is about
OffendingRows(kind) ==
    {i \in DOMAIN TemplateRows :
        \/ kind = "fastq_type_values"
           /\ TemplateRows[i].fastq_type \notin {"pair1", "pair2", "single"}
        \/ kind = "treatment_values"
           /\ TemplateRows[i].treatment \notin {"merge", "copy", "rename"}
        \/ kind = "na_sample_name" /\ TemplateRows[i].sample_name = NaN
        \/ kind = "na_fastq_file_name" /\ TemplateRows[i].fastq_file_name = NaN
        \/ kind = "duplicates" /\ i \in RepeatingRows
        \/ kind = "name_type_mismatch" /\ ~NameAgrees(i)}

C6_NameTypeAgreement ==
    probe.function = "check_fastq_name_type" =>
        LET n == probe.fastq_file_name
            t == probe.fastq_type
        IN /\ probe.result \in BOOLEAN
           /\ probe.result = TRUE <=>
                 \/ t = "pair1" /\ IsSuffix(r1_files_pattern, n)
                 \/ t = "pair2" /\ IsSuffix(r2_files_pattern, n)
                 \/ /\ t = "single"
                    /\ IsSuffix(fastq_pattern, n)
                    /\ ~IsSuffix(r1_files_pattern, n)
                    /\ ~IsSuffix(r2_files_pattern, n)
           /\ t \notin {"pair1", "pair2", "single"} => probe.result = FALSE

\* a name that ends with the general pattern and with the R1 pattern is
\* declared single: the function returns false
C6_Witness ==
    /\ probe.function = "check_fastq_name_type"
    /\ probe.fastq_type = "single"
    /\ fastq_pattern = <<"g">>
    /\ r1_files_pattern = <<"1", "g">>
    /\ r2_files_pattern = <<"2", "g">>
    /\ probe.fastq_file_name = <<"1", "g">>
    /\ probe.result = FALSE

\* the pre-flight invariant of the patterns
PatternsCompatible ==
    /\ IsSuffix(fastq_pattern, r1_files_pattern)
    /\ IsSuffix(fastq_pattern, r2_files_pattern)
    /\ r1_files_pattern # r2_files_pattern
    /\ r1_files_pattern # fastq_pattern
    /\ r2_files_pattern # fastq_pattern

\* check_fastq_PAIRED_patterns has run
PatternCheckRan ==
    /\ pc \notin {"initial_checks", "check_patterns"}
    /\ ~(pc = "failed" /\ error.kind \in DirectoryKinds)

\* C7: check_fastq_PAIRED_patterns passes iff the R1 and R2 patterns both
\* end with the general pattern, differ from each other and neither is the
\* general pattern; when it fails, in treat_fastqs and in treat_metadata,
\* the input directory has not been listed, the template has not been
\* loaded and no file has been written, and none of these ever happens
\* in a run with incompatible patterns.
C7_PatternPreflight ==
    /\ PatternCheckRan => ((error.kind \notin PatternKinds) <=> PatternsCompatible)
    /\ error.kind \in PatternKinds => pc = "failed"
    /\ ~PatternsCompatible =>
          /\ ~fastqs_in_directory.listed
          /\ ~treatment_table.loaded
          /\ NothingWritten

\* treat_metadata stops on an R2 pattern that is the general pattern
C7_Witness ==
    /\ program = "treat_metadata"
    /\ pc = "failed"
    /\ error.kind = "pattern_is_fastq_pattern"
    /\ r2_files_pattern = fastq_pattern
    /\ ~treatment_table.loaded

\* check_fastq_file_exits has run
FileCheckRan ==
    \/ pc \in {"check_samples", "treat_files", "done"}
    \/ pc = "failed" /\ error.kind \in SampleKinds \cup {"absent_files"}
    \/ FailedAtReport

\* C8: check_fastq_file_exits fails the run iff some fastq_file_name of the
\* template is absent from the listing of the input store; its exception
\* names exactly the absent files, each once, and no file operation has
\* been attempted when it is raised.
C8_AbsentFiles ==
    FileCheckRan =>
        /\ (error.kind = "absent_files") <=> (AbsentFiles # {})
        /\ error.kind = "absent_files" =>
              /\ pc = "failed"
              /\ Range(error.names) = AbsentFiles
              /\ Len(error.names) = Cardinality(AbsentFiles)
              /\ NothingWritten

\* two files of the template are absent and a third one is present
C8_Witness ==
    /\ pc = "failed"
    /\ error.kind = "absent_files"
    /\ Cardinality(Range(error.names)) = 2
    /\ Len(TemplateRows) = 3

\* the suffix of the output file of a fastq_type
SuffixOf(t) ==
    IF t = "pair1" THEN r1_files_pattern
    ELSE IF t = "pair2" THEN r2_files_pattern
    ELSE fastq_pattern

\* the names treat_files is to write for the template
ExpectedOutputs ==
    {TemplateRows[i].fastq_file_name :
        i \in {j \in DOMAIN TemplateRows : TemplateRows[j].treatment = "copy"}}
    \cup {TemplateRows[i].sample_name \o SuffixOf(TemplateRows[i].fastq_type) :
            i \in {j \in DOMAIN TemplateRows : TemplateRows[j].treatment \in {"rename", "merge"}}}

\* the loop of treat_files is over
TreatmentFinished ==
    \/ pc = "treat_files" /\ sample_idx > Len(unique_sample_names)
    \/ pc = "done"
    \/ FailedAtReport

\* the files the output store may hold from before the run
OldFiles == UNION {DOMAIN d : d \in OutputDirectories}

\* C9: when the loop of treat_files is over and no file operation failed,
\* the names written to the output store are exactly fastq_file_name for
\* every row of a copy sample and sample_name + suffix for every
\* fastq_type present in a rename or merge sample.
C9_OutputNames ==
    (program = "treat_fastqs" /\ TreatmentFinished
        /\ \A i \in DOMAIN ops : ~ops[i].failed) =>
        /\ {ops[i].op.output : i \in DOMAIN ops} = ExpectedOutputs
        /\ ExpectedOutputs \subseteq DOMAIN output_dir
        /\ DOMAIN output_dir \subseteq ExpectedOutputs \cup OldFiles

\* a merge sample and a copy sample were treated without a failure
C9_Witness ==
    /\ pc = "done"
    /\ \A i \in DOMAIN ops : ~ops[i].failed
    /\ \E i \in DOMAIN ops : ops[i].op.kind = "cat"
    /\ \E i \in DOMAIN ops : ops[i].op.kind = "copy"
    /\ Cardinality(ExpectedOutputs) = 2

\* the sample the loop of treat_files treated last
LastSample == unique_sample_names[sample_idx - 1]

\* the files of a fastq_type of a sample
FilesOfType(s, t) ==
    {TemplateRows[i].fastq_file_name :
        i \in {j \in RowsOf(s) : TemplateRows[j].fastq_type = t}}

\* the files, in ascending order of name
InAscendingOrder(files) ==
    CHOOSE q \in [1..Cardinality(files) -> files] :
        /\ Range(q) = files
        /\ \A i \in 1..(Len(q) - 1) : StrLess(q[i], q[i + 1])

RECURSIVE Appended(_)
Appended(q) == IF q = <<>> THEN <<>> ELSE input_dir[Head(q)] \o Appended(Tail(q))

\* the concatenations of the last sample that succeeded
SucceededFor(s, name) ==
    \E i \in DOMAIN ops :
        /\ ops[i].op.sample = s
        /\ ops[i].op.output = name
        /\ ops[i].op.kind = "cat"
        /\ ~ops[i].failed

\* C10: once a merge sample has been treated, for every fastq_type present
\* in it a concatenation into sample_name + type suffix was attempted, and
\* when it succeeded that file holds the contents of the type's input files
\* appended in ascending order of file name, whatever the order of the rows.
C10_MergeContents ==
    (program = "treat_fastqs" /\ pc \in {"treat_files", "done"} /\ sample_idx > 1
        /\ TreatmentsOf(LastSample) = {"merge"}) =>
        \A t \in {"pair1", "pair2", "single"} :
            FilesOfType(LastSample, t) # {} =>
                /\ \E i \in DOMAIN ops :
                      /\ ops[i].op.kind = "cat"
                      /\ ops[i].op.sample = LastSample
                      /\ ops[i].op.output = LastSample \o SuffixOf(t)
                /\ SucceededFor(LastSample, LastSample \o SuffixOf(t)) =>
                      output_dir[LastSample \o SuffixOf(t)] =
                          Appended(InAscendingOrder(FilesOfType(LastSample, t)))

\* the rows of a merge sample are in descending order of file name in the
\* template and its concatenation succeeded
C10_Witness ==
    /\ pc = "treat_files"
    /\ sample_idx > 1
    /\ TreatmentsOf(LastSample) = {"merge"}
    /\ SucceededFor(LastSample, LastSample \o SuffixOf("single"))
    /\ Cardinality(FilesOfType(LastSample, "single")) = 2
    /\ \E i, j \in RowsOf(LastSample) :
          /\ i < j
          /\ StrLess(TemplateRows[j].fastq_file_name, TemplateRows[i].fastq_file_name)

\* the attempts of treat_files on the files of a sample with an operation
AttemptsOf(kind, s, files) ==
    {k \in DOMAIN ops :
        /\ ops[k].op.kind = kind
        /\ ops[k].op.sample = s
        /\ Range(ops[k].op.inputs) = files}

\* C11: a failed file operation never stops treatment: when treat_files
\* finishes, whatever operations failed, it has attempted the copy or the
\* rename of every file row of every copy or rename sample and one
\* concatenation per fastq_type present of every merge sample.
C11_EveryOperationAttempted ==
    (program = "treat_fastqs" /\ TreatmentFinished) =>
        \A s \in TemplateSamples :
            /\ TreatmentsOf(s) \in {{"copy"}, {"rename"}} =>
                  \A i \in RowsOf(s) :
                      AttemptsOf(CHOOSE t \in TreatmentsOf(s) : TRUE, s,
                                 {TemplateRows[i].fastq_file_name}) # {}
            /\ TreatmentsOf(s) = {"merge"} =>
                  \A t \in {"pair1", "pair2", "single"} :
                      FilesOfType(s, t) # {} =>
                          Cardinality(AttemptsOf("cat", s, FilesOfType(s, t))) = 1

\* the first operation of the run failed and the operations that follow
\* it, of the same sample and of the next one, were attempted
C11_Witness ==
    /\ program = "treat_fastqs"
    /\ TreatmentFinished
    /\ Len(ops) >= 3
    /\ ops[1].failed
    /\ ops[2].op.sample = ops[1].op.sample
    /\ ops[3].op.sample # ops[1].op.sample

\* the samples with an operation that failed
SamplesWithFailure == {ops[k].op.sample : k \in {j \in DOMAIN ops : ops[j].failed}}

\* C12: at the end of treat_files the list of warning samples holds a
\* sample iff at least one of its copy, rename or concatenation operations
\* failed, and holds each such sample once.
C12_WarningSamples ==
    (program = "treat_fastqs" /\ pc = "done") =>
        /\ Range(warning_samples) = SamplesWithFailure
        /\ Len(warning_samples) = Cardinality(SamplesWithFailure)

\* two operations of a sample failed, another sample had no failure: the
\* list holds the first sample once
C12_Witness ==
    /\ program = "treat_fastqs"
    /\ pc = "done"
    /\ \E j, k \in DOMAIN ops :
          /\ j # k
          /\ ops[j].failed /\ ops[k].failed
          /\ ops[j].op.sample = ops[k].op.sample
          /\ ops[j].op.kind = "rename"
          /\ warning_samples = <<ops[j].op.sample>>
    /\ \E k \in DOMAIN ops : ops[k].op.sample \notin SamplesWithFailure

\* C13: in treat_fastqs, once treatment has started, whatever operations
\* fail and whatever the output store holds, the run reaches the final
\* report: it never ends on the exception of the listing of the output
\* store, and the report gives the number of fastq files of the output
\* store and, when a sample had a failed operation, the warning samples.
C13_ReportAlwaysReached ==
    program = "treat_fastqs" =>
        /\ ~FailedAtReport
        /\ pc = "done" =>
              /\ report.printed
              /\ report.n_output_files =
                    Cardinality({n \in DOMAIN output_dir : IsSuffix(fastq_pattern, n)})
              /\ SamplesWithFailure # {} =>
                    Range(report.warning_samples) = SamplesWithFailure

\* every operation failed and left no file in an empty output store: the
\* run ends on the exception of the listing and the warning samples are
\* not reported
C13_Witness ==
    /\ program = "treat_fastqs"
    /\ pc = "failed"
    /\ error.kind = "no_fastq_files"
    /\ ops # <<>>
    /\ \A k \in DOMAIN ops : ops[k].failed
    /\ output_dir = EmptyDirectory
    /\ warning_samples # <<>>
    /\ ~report.printed

FoldValues(rows, column) ==
    {IF rows[i][column] = NaN THEN <<>> ELSE rows[i][column] : i \in DOMAIN rows}

\* a is before b in lexicographic order of code points
LexLess(a, b) ==
    \E k \in 0..Len(a) :
        /\ k <= Len(b)
        /\ SubSeq(a, 1, k) = SubSeq(b, 1, k)
        /\ \/ k = Len(a) /\ k < Len(b)
           \/ k < Len(a) /\ k < Len(b) /\ CharCode(a[k + 1]) < CharCode(b[k + 1])

\* the strings of a set in lexicographic order
Lexicographic(S) ==
    CHOOSE q \in [1..Cardinality(S) -> S] :
        /\ Range(q) = S
        /\ \A i \in 1..(Len(q) - 1) : LexLess(q[i], q[i + 1])

\* the strings of a list with a ';' between two of them
RECURSIVE SemicolonJoined(_)
SemicolonJoined(q) ==
    IF Len(q) = 0 THEN <<>>
    ELSE IF Len(q) = 1 THEN q[1]
    ELSE SemicolonJoined(SubSeq(q, 1, Len(q) - 1)) \o <<";">> \o q[Len(q)]

\* C15: combine_metadata_rows returns the values of the column in the
\* selected rows, nulls read as the empty string, without duplicates, in
\* lexicographic order and joined with ';': rows that all hold PAIRED give
\* "PAIRED", rows that hold PAIRED, PAIRED and SINGLE give "PAIRED;SINGLE".
C15_FoldedValue ==
    probe.function = "combine_metadata_rows" =>
        /\ probe.result =
              SemicolonJoined(Lexicographic(FoldValues(probe.rows, probe.column)))
        /\ (probe.rows # <<>> /\ \A i \in DOMAIN probe.rows :
                                     probe.rows[i][probe.column] = PAIRED)
              => probe.result = <<"P", "A", "I", "R", "E", "D">>
        /\ (Len(probe.rows) = 3
              /\ probe.rows[1][probe.column] = PAIRED
              /\ probe.rows[2][probe.column] = PAIRED
              /\ probe.rows[3][probe.column] = SINGLE)
              => probe.result = <<"P", "A", "I", "R", "E", "D", ";",
                                  "S", "I", "N", "G", "L", "E">>

\* rows that hold SINGLE, a null, PAIRED and SINGLE again are folded
C15_Witness ==
    /\ probe.function = "combine_metadata_rows"
    /\ probe.column = "library_layout"
    /\ Len(probe.rows) = 3
    /\ probe.rows[1].library_layout = SINGLE
    /\ probe.rows[2].library_layout = NaN
    /\ probe.rows[3].library_layout = PAIRED
    /\ probe.result = <<";", "P", "A", "I", "R", "E", "D", ";",
                        "S", "I", "N", "G", "L", "E">>

\* the values of a column in the rows that are not null
NonNullValues(rows, column) ==
    {rows[i][column] : i \in DOMAIN rows} \ {NaN}

\* C16 as stated: a call of combine_metadata_rows appends a warning iff the
\* column has two or more distinct non-null values in the rows and is not
\* in the no-warning list
C16_WarningOnNonNullValues ==
    probe.function = "combine_metadata_rows" =>
        (probe.n_warnings > 0 <=>
            /\ Cardinality(NonNullValues(probe.rows, probe.column)) >= 2
            /\ probe.column \notin Range(probe.no_warning_columns))

\* C16 as amended: a call of combine_metadata_rows appends one warning iff
\* the column is not in the no-warning list and its values in the rows, a
\* null cell counted as one more value (the empty string), are two or
\* more: two distinct non-null values, or one non-null value and a null
\* cell.  Rows that all hold the same value, or only nulls, or no row at
\* all, never append a warning.
C16_WarningOnFoldedValues ==
    probe.function = "combine_metadata_rows" =>
        /\ probe.n_warnings \in {0, 1}
        /\ probe.n_warnings = 1 <=>
              /\ Cardinality(FoldValues(probe.rows, probe.column)) >= 2
              /\ probe.column \notin Range(probe.no_warning_columns)
        /\ probe.n_warnings = 1 <=>
              /\ \/ Cardinality(NonNullValues(probe.rows, probe.column)) >= 2
                 \/ /\ Cardinality(NonNullValues(probe.rows, probe.column)) = 1
                    /\ \E i \in DOMAIN probe.rows : probe.rows[i][probe.column] = NaN
              /\ probe.column \notin Range(probe.no_warning_columns)

\* a row holds PAIRED and another a null: a warning is appended
C16_Witness ==
    /\ probe.function = "combine_metadata_rows"
    /\ probe.column = "library_layout"
    /\ NonNullValues(probe.rows, probe.column) = {PAIRED}
    /\ \E i \in DOMAIN probe.rows : probe.rows[i].library_layout = NaN
    /\ probe.n_warnings = 1
    /\ warnings_df # <<>>

\* C17: the string combine_metadata_rows returns and whether it appends a
\* warning do not change when the rows are permuted or a row is repeated:
\* two calls in a row, for the same column and no-warning list, on lists
\* made of the same rows (the same list included) return the same string
\* and append as many warnings.
C17_FoldOrderIndependent ==
    [][(/\ probe.function = "combine_metadata_rows"
        /\ probe'.function = "combine_metadata_rows"
        /\ probe'.column = probe.column
        /\ probe'.no_warning_columns = probe.no_warning_columns
        /\ Range(probe'.rows) = Range(probe.rows))
          => /\ probe'.result = probe.result
             /\ probe'.n_warnings = probe.n_warnings]_vars

\* a second call in a row has warned, on rows that are neither in the
\* order of their values nor without repetition
C17_Witness ==
    /\ probe.function = "combine_metadata_rows"
    /\ Len(warnings_df) = 2
    /\ probe.column = "library_layout"
    /\ Len(probe.rows) = 3
    /\ probe.rows[1].library_layout = SINGLE
    /\ probe.rows[2].library_layout = PAIRED
    /\ probe.rows[3] = probe.rows[1]
    /\ probe.n_warnings = 1

\* the values a folded cell joins
JoinedValues(cell) == str_split(cell, <<";">>)

\* the samples of the template the loop of treat_ENA_metadata is done with
TreatedSamples == {unique_sample_names[k] : k \in 1..(sample_idx - 1)}

\* the lines of the treated table that come from template sample s
LinesOfSample(s) ==
    {j \in DOMAIN treated_metadata_df : treated_metadata_df[j].treatment_sample_name = s}

\* C18: a warning never suppresses output: for every record (s, c) of the
\* warning table the treated table has a line of final sample s whose
\* column c holds two or more distinct values joined with ';'; a run that
\* has a warning does not fail, every sample the loop is done with has
\* its line, and the run ends with the loop done with every sample.
C18_WarningKeepsOutput ==
    /\ \A i \in DOMAIN warnings_df :
          \E j \in DOMAIN treated_metadata_df :
             /\ treated_metadata_df[j].final_files_sample_name =
                    warnings_df[i].final_files_sample_name
             /\ LET values ==
                        JoinedValues(treated_metadata_df[j][warnings_df[i].metadata_column_name])
                IN /\ Len(values) >= 2
                   /\ \A a, b \in DOMAIN values : a # b => values[a] # values[b]
    /\ warnings_df # <<>> => pc \in {"tm_treat", "done"}
    /\ pc \in {"tm_treat", "done"} => \A s \in TreatedSamples : LinesOfSample(s) # {}
    /\ pc = "done" => TreatedSamples = Range(unique_sample_names)

\* a finished run in which a sample had a warning and a later sample of the
\* template was treated after it
C18_Witness ==
    /\ pc = "done"
    /\ \E i \in DOMAIN warnings_df, j, k \in DOMAIN treated_metadata_df :
          /\ treated_metadata_df[j].final_files_sample_name =
                 warnings_df[i].final_files_sample_name
          /\ j < k
          /\ treated_metadata_df[k].treatment_sample_name #
                 treated_metadata_df[j].treatment_sample_name

\* the original sample name a file name carries: the name without the
\* fastq pattern at its end, up to the first separator
OriginalNameOf(file_name) ==
    LET base == IF IsSuffix(fastq_pattern, file_name)
                THEN SubSeq(file_name, 1, Len(file_name) - Len(fastq_pattern))
                ELSE file_name
        cuts == {k \in DOMAIN base : <<base[k]>> = sample_name_separator}
    IN IF cuts = {} THEN base
       ELSE SubSeq(base, 1, (CHOOSE k \in cuts : \A d \in cuts : k <= d) - 1)

OriginalNamesOf(s) ==
    {OriginalNameOf(r.fastq_file_name) : r \in Range(rows_of_sample(treatment_table, s))}

TreatmentOf(s) == rows_of_sample(treatment_table, s)[1].treatment

\* C19: in the treatment of a validated template every rename or merge
\* sample the loop is done with has exactly one line in the treated table,
\* every copy sample as many lines as its file names carry distinct
\* original sample names, and the table has no other line.
C19_LinesPerSample ==
    pc \in {"tm_treat", "done"} =>
       /\ \A s \in TreatedSamples :
             Cardinality(LinesOfSample(s)) =
                IF TreatmentOf(s) = "copy" THEN Cardinality(OriginalNamesOf(s)) ELSE 1
       /\ \A j \in DOMAIN treated_metadata_df :
             treated_metadata_df[j].treatment_sample_name \in TreatedSamples

\* a finished run with a copy sample of two original names and a sample of
\* another treatment
C19_Witness ==
    /\ pc = "done"
    /\ \E s, t \in TreatedSamples :
          /\ TreatmentOf(s) = "copy"
          /\ Cardinality(OriginalNamesOf(s)) = 2
          /\ Cardinality(LinesOfSample(s)) = 2
          /\ TreatmentOf(t) # "copy"
          /\ Cardinality(LinesOfSample(t)) = 1

\* C20: after the treatment of a validated template no two lines of the
\* treated table have the same final_files_sample_name.
C20_OneLinePerFinalSample ==
    pc \in {"tm_treat", "done"} =>
       \A i, j \in DOMAIN treated_metadata_df :
          i # j => treated_metadata_df[i].final_files_sample_name #
                      treated_metadata_df[j].final_files_sample_name

\* a finished run whose treated table has two lines of one final sample,
\* that come from two samples of the template
C20_Witness ==
    /\ pc = "done"
    /\ error = NoError
    /\ \E i, j \in DOMAIN treated_metadata_df :
          /\ i # j
          /\ treated_metadata_df[i].final_files_sample_name =
                 treated_metadata_df[j].final_files_sample_name
          /\ treated_metadata_df[i].treatment_sample_name #
                 treated_metadata_df[j].treatment_sample_name

\* C21 as stated: in every line of the treated table treatment_sample_name
\* equals final_files_sample_name, which is a sample_name of the template.
C21_FinalNameIsTemplateName ==
    \A j \in DOMAIN treated_metadata_df :
       /\ treated_metadata_df[j].treatment_sample_name =
              treated_metadata_df[j].final_files_sample_name
       /\ treated_metadata_df[j].final_files_sample_name \in TemplateSamples

\* C21 amended: in every line of the treated table treatment_sample_name is
\* a sample_name of the template; the line of a rename or merge sample has
\* that name as final_files_sample_name, the line of a copy sample has one
\* of the original sample names of the files of the sample.
C21_FinalNamePerTreatment ==
    \A j \in DOMAIN treated_metadata_df :
       LET line == treated_metadata_df[j]
       IN /\ line.treatment_sample_name \in TemplateSamples
          /\ IF TreatmentOf(line.treatment_sample_name) = "copy"
             THEN line.final_files_sample_name \in OriginalNamesOf(line.treatment_sample_name)
             ELSE line.final_files_sample_name = line.treatment_sample_name

\* a finished run with the line of a copy sample whose final name is not
\* the name of the sample, and the line of a sample of another treatment
C21_Witness ==
    /\ pc = "done"
    /\ \E i, j \in DOMAIN treated_metadata_df :
          /\ TreatmentOf(treated_metadata_df[i].treatment_sample_name) = "copy"
          /\ treated_metadata_df[i].final_files_sample_name #
                 treated_metadata_df[i].treatment_sample_name
          /\ TreatmentOf(treated_metadata_df[j].treatment_sample_name) # "copy"

\* the files of the template that contribute to a line: the files of its
\* template sample, for a copy sample those of the original sample of the
\* line only
ContributingRows(line) ==
    {r \in Range(rows_of_sample(treatment_table, line.treatment_sample_name)) :
        TreatmentOf(line.treatment_sample_name) = "copy"
           => OriginalNameOf(r.fastq_file_name) = line.final_files_sample_name}

\* the types of a set, in ascending order, with ';' between them
TypesJoined(types) ==
    LET ascending == (IF "pair1" \in types THEN <<"pair1">> ELSE <<>>)
                     \o (IF "pair2" \in types THEN <<"pair2">> ELSE <<>>)
                     \o (IF "single" \in types THEN <<"single">> ELSE <<>>)
    IN [i \in 1..(2 * Len(ascending) - 1) |->
           IF i % 2 = 1 THEN ascending[(i + 1) \div 2] ELSE ";"]

\* C22: in every line of the treated table treatment_fastq_type is the
\* sorted, ';'-joined set of the types of the template files that
\* contribute to the line (for a copy sample, the files of the original
\* sample of the line only).
C22_TypesOfContributingFiles ==
    \A j \in DOMAIN treated_metadata_df :
       treated_metadata_df[j].treatment_fastq_type =
          TypesJoined({r.fastq_type : r \in ContributingRows(treated_metadata_df[j])})

\* a finished run with the line of a copy sample that carries a type none
\* of the files of its original sample has
C22_Witness ==
    /\ pc = "done"
    /\ error = NoError
    /\ \E j \in DOMAIN treated_metadata_df :
          /\ TreatmentOf(treated_metadata_df[j].treatment_sample_name) = "copy"
          /\ \E t \in Range(treated_metadata_df[j].treatment_fastq_type) \ {";"} :
                t \notin {r.fastq_type : r \in ContributingRows(treated_metadata_df[j])}

\* what holds for the lines of the samples that are not copy samples
C22_TypesOfOtherModes ==
    \A j \in DOMAIN treated_metadata_df :
       TreatmentOf(treated_metadata_df[j].treatment_sample_name) # "copy" =>
          treated_metadata_df[j].treatment_fastq_type =
             TypesJoined({r.fastq_type : r \in ContributingRows(treated_metadata_df[j])})

\* the name occurs in the cell of the download links
OccursIn(name, cell) ==
    \E k \in 1..(Len(cell) - Len(name) + 1) : SubSeq(cell, k, k + Len(name) - 1) = name

\* the number of rows of the Metadata Table a file of the template matches
MatchesOf(name) ==
    Cardinality({i \in DOMAIN metadata.rows : OccursIn(name, metadata.rows[i].fastq_ftp)})

TemplateFiles == {TemplateRows[i].fastq_file_name : i \in DOMAIN TemplateRows}

FilesWithoutMatch == {f \in TemplateFiles : MatchesOf(f) = 0}

FilesWithSeveralMatches == {f \in TemplateFiles : MatchesOf(f) > 1}

\* check_treatment_fastqs_in_metadata has run
MetadataMatchCheckRan ==
    \/ pc \in {"tm_check_samples", "tm_treat", "done"}
    \/ pc = "failed" /\ error.kind \in SampleKinds \cup {"no_unique_match"}

\* C23: check_treatment_fastqs_in_metadata fails the run iff some file of
\* the template matches no row or more than one row of the Metadata Table,
\* and when it fails it reports every file without a match and every file
\* with more than one match, also when the template has files of both kinds.
C23_CompleteMatchReport ==
    MetadataMatchCheckRan =>
        /\ (error.kind = "no_unique_match") <=>
              (FilesWithoutMatch \cup FilesWithSeveralMatches # {})
        /\ error.kind = "no_unique_match" =>
              Range(error.names) = FilesWithoutMatch \cup FilesWithSeveralMatches

\* the check has failed on a template with a file without a match and a
\* file with more than one match, and a file without a match is not reported
C23_Witness ==
    /\ pc = "failed"
    /\ error.kind = "no_unique_match"
    /\ FilesWithoutMatch # {}
    /\ FilesWithSeveralMatches # {}
    /\ \E f \in FilesWithoutMatch : f \notin Range(error.names)

\* what holds: the check fails iff some file has no unique match, and it
\* reports the files with more than one match when there are some, the
\* files without a match otherwise
C23_ReportsOneKind ==
    MetadataMatchCheckRan =>
        /\ (error.kind = "no_unique_match") <=>
              (FilesWithoutMatch \cup FilesWithSeveralMatches # {})
        /\ error.kind = "no_unique_match" =>
              Range(error.names) = IF FilesWithSeveralMatches # {}
                                   THEN FilesWithSeveralMatches
                                   ELSE FilesWithoutMatch

\* the run accessions of the rows of the Metadata Table that match a
\* template file contributing to the line
AccessionsOfContributingRows(line) ==
    {metadata.rows[i].run_accession :
        i \in {k \in DOMAIN metadata.rows :
                 \E r \in ContributingRows(line) :
                    OccursIn(r.fastq_file_name, metadata.rows[k].fastq_ftp)}}

\* the run accessions of the rows that were selected and folded into the line
AccessionsFolded(line) == Range(JoinedValues(line.run_accession))

\* C24: for a copy sample and each of its original sample names, the rows
\* of the Metadata Table selected for the fold are exactly the rows that
\* match a template file of that original sample.
C24_CopyRowsSelected ==
    \A j \in DOMAIN treated_metadata_df :
       TreatmentOf(treated_metadata_df[j].treatment_sample_name) = "copy" =>
          AccessionsFolded(treated_metadata_df[j]) =
             AccessionsOfContributingRows(treated_metadata_df[j])

\* a finished run where the line of a copy sample folds a row of the
\* Metadata Table that matches no template file of its original sample
C24_Witness ==
    /\ pc = "done"
    /\ error = NoError
    /\ \E j \in DOMAIN treated_metadata_df :
          /\ TreatmentOf(treated_metadata_df[j].treatment_sample_name) = "copy"
          /\ AccessionsOfContributingRows(treated_metadata_df[j]) # {}
          /\ \E a \in AccessionsFolded(treated_metadata_df[j]) :
                a \notin AccessionsOfContributingRows(treated_metadata_df[j])

\* what holds: every row that matches a template file of the original
\* sample is selected
C24_ContributingRowsSelected ==
    \A j \in DOMAIN treated_metadata_df :
       TreatmentOf(treated_metadata_df[j].treatment_sample_name) = "copy" =>
          AccessionsOfContributingRows(treated_metadata_df[j])
             \subseteq AccessionsFolded(treated_metadata_df[j])

\* C25: in a run of treat_files on a template that passed every check no
\* output file name is written by two different samples.
C25_OwnOutputNames ==
    program = "treat_fastqs" =>
       \A i, j \in DOMAIN ops :
          ops[i].op.output = ops[j].op.output => ops[i].op.sample = ops[j].op.sample

\* a finished run where two samples wrote the same output file without a
\* failure, and the file holds what the later sample wrote
C25_Witness ==
    /\ program = "treat_fastqs"
    /\ pc = "done"
    /\ \E i, j \in DOMAIN ops :
          /\ i < j
          /\ ops[i].op.output = ops[j].op.output
          /\ ops[i].op.sample # ops[j].op.sample
          /\ ~ops[i].failed
          /\ ~ops[j].failed
          /\ \A k \in DOMAIN ops : k > j => ops[k].op.output # ops[j].op.output
          /\ output_dir[ops[j].op.output] = cat_contents(ops[j].op.inputs, input_dir)
          /\ output_dir[ops[j].op.output] # cat_contents(ops[i].op.inputs, input_dir)

\* the fastq types a sample has files of
TypesPresent(s) == {TemplateRows[i].fastq_type : i \in RowsOf(s)}

\* C26: for a merge sample of a template that passed
\* check_treatment_for_samples and check_merge_samples, merge_mode does not
\* fall to its empty branch and runs exactly one concatenation job for each
\* fastq_type the sample has files of, over the files of that type.
C26_MergeEngineAgrees ==
    (/\ probe.function = "merge_mode"
     /\ probe.treatment_check = NoError
     /\ probe.merge_check = NoError) =>
        /\ probe.jobs # <<>>
        /\ Len(probe.jobs) = Cardinality(TypesPresent(probe.sample))
        /\ \A t \in TypesPresent(probe.sample) :
              \E i \in DOMAIN probe.jobs :
                 /\ probe.jobs[i].kind = "cat"
                 /\ probe.jobs[i].output = probe.sample \o SuffixOf(t)
                 /\ Range(probe.jobs[i].inputs) = FilesOfType(probe.sample, t)

\* merge_mode was called for a validated merge sample with two files of
\* each type and ran three jobs
C26_Witness ==
    /\ probe.function = "merge_mode"
    /\ probe.treatment_check = NoError
    /\ probe.merge_check = NoError
    /\ Triple(probe.sample) = <<2, 2, 2>>
    /\ Len(probe.jobs) = 3

\* C27: for patterns that pass check_fastq_PAIRED_patterns and a file name
\* that ends with the general pattern, get_fastq_type returns pair1 if the
\* name ends with the R1 pattern, else pair2 if it ends with the R2
\* pattern, else single, and check_fastq_name_type accepts the name with
\* that type.
C27_RawTemplateAgrees ==
    (/\ probe.function = "get_fastq_type"
     /\ probe.patterns_check = NoError
     /\ IsSuffix(fastq_pattern, probe.fastq_file_name)) =>
        /\ probe.result = IF IsSuffix(r1_files_pattern, probe.fastq_file_name) THEN "pair1"
                          ELSE IF IsSuffix(r2_files_pattern, probe.fastq_file_name) THEN "pair2"
                          ELSE "single"
        /\ probe.name_check = TRUE

\* a name that ends with both paired patterns gets pair1, and is accepted
C27_Witness ==
    /\ probe.function = "get_fastq_type"
    /\ probe.patterns_check = NoError
    /\ fastq_pattern = <<"g">>
    /\ IsSuffix(r1_files_pattern, probe.fastq_file_name)
    /\ IsSuffix(r2_files_pattern, probe.fastq_file_name)
    /\ probe.result = "pair1"
    /\ probe.name_check = TRUE

\* C28: for patterns that pass check_fastq_PAIRED_patterns,
\* check_fastq_name_type returns true for at most one of the types pair1,
\* pair2 and single, for every file name.
C28_TypeUnambiguous ==
    (/\ probe.function = "check_fastq_name_type, each type"
     /\ probe.patterns_check = NoError) =>
        Cardinality({t \in DOMAIN probe.results : probe.results[t] = TRUE}) <= 1

\* with a non-empty general pattern and paired patterns that pass the
\* check, a file name is accepted as pair1 and as pair2
C28_Witness ==
    /\ probe.function = "check_fastq_name_type, each type"
    /\ probe.patterns_check = NoError
    /\ fastq_pattern # <<>>
    /\ probe.results["pair1"] = TRUE
    /\ probe.results["pair2"] = TRUE

\* what holds: a name accepted as single is accepted as nothing else, and a
\* name is accepted as pair1 and as pair2 only when one paired pattern ends
\* with the other
C28_AmbiguousOnlyWhenNested ==
    (/\ probe.function = "check_fastq_name_type, each type"
     /\ probe.patterns_check = NoError) =>
        /\ probe.results["single"] = TRUE =>
              probe.results["pair1"] = FALSE /\ probe.results["pair2"] = FALSE
        /\ (probe.results["pair1"] = TRUE /\ probe.results["pair2"] = TRUE) =>
              \/ IsSuffix(r1_files_pattern, r2_files_pattern)
              \/ IsSuffix(r2_files_pattern, r1_files_pattern)

\* the orders the n rows of a table can be written in
RowOrders(n) == {q \in [1..n -> 1..n] : \A i, j \in 1..n : i # j => q[i] # q[j]}

\* the rows of a table in another order
Reordered(rows, q) == [i \in DOMAIN rows |-> rows[q[i]]]

\* what main() and treat_ENA_metadata produce for a template and a
\* Metadata Table
TreatedFrom(template_rows, metadata_rows) ==
    treat_ENA_metadata(Table(template_rows), get_unique_sample_names(Table(template_rows)),
                       MetadataTable(metadata_rows), no_warning_columns, fastq_pattern,
                       sample_name_separator, sep_appearance)

\* C29: for a validated template the treated table and the warning table
\* are the same for every order of the rows of the template and every
\* order of the rows of the Metadata Table, lines and warnings in the same
\* order: the samples in ascending order of sample_name and, for a copy
\* sample, the original sample names in ascending order.
C29_RowOrderIndependent ==
    pc = "done" =>
       /\ \A q \in RowOrders(Len(TemplateRows)), m \in RowOrders(Len(metadata.rows)) :
             LET other == TreatedFrom(Reordered(TemplateRows, q), Reordered(metadata.rows, m))
             IN /\ other.lines = treated_metadata_df
                /\ other.warnings = warnings_df
       /\ \A i, j \in DOMAIN treated_metadata_df :
             i < j =>
                LET a == treated_metadata_df[i]
                    b == treated_metadata_df[j]
                IN \/ LexLess(a.treatment_sample_name, b.treatment_sample_name)
                   \/ /\ a.treatment_sample_name = b.treatment_sample_name
                      /\ LexLess(a.final_files_sample_name, b.final_files_sample_name)

\* a finished run on a template of three rows or more with a copy sample of
\* two original names, a Metadata Table of two rows or more, and a warning
C29_Witness ==
    /\ pc = "done"
    /\ Len(TemplateRows) >= 3
    /\ Len(metadata.rows) >= 2
    /\ warnings_df # <<>>
    /\ \E s \in TemplateSamples :
          TreatmentOf(s) = "copy" /\ Cardinality(LinesOfSample(s)) = 2

\* the extension of the tables the programs save
TableExtension == <<".", "t", "s", "v">>

\* the decimal digits of a counter below ten
Digit(k) == <<"0", "1", "2", "3", "4", "5", "6", "7", "8", "9">>[k + 1]

\* the name with counter k: what comes before the extension, the counter
\* between brackets, the extension
WithCounter(file_name, k) ==
    LET starts == {i \in 1..(Len(file_name) - Len(TableExtension) + 1) :
                      SubSeq(file_name, i, i + Len(TableExtension) - 1) = TableExtension}
        stem == IF starts = {} THEN file_name
                ELSE SubSeq(file_name, 1, (CHOOSE i \in starts : \A j \in starts : i <= j) - 1)
    IN stem \o <<"(", Digit(k), ")">> \o TableExtension

\* C30: treat_duplicated_outfiles returns a name that is not in the listing
\* of the directory: the given name when it is absent, otherwise the name
\* with the first counter 1, 2, ... for which the name is absent.
C30_FreshOutfileName ==
    probe.function = "treat_output_directory_parameter_outfiles" =>
        /\ probe.result \notin DOMAIN output_dir
        /\ probe.file_name \notin DOMAIN output_dir => probe.result = probe.file_name
        /\ probe.file_name \in DOMAIN output_dir =>
              \E k \in 1..(Cardinality(DOMAIN output_dir) + 1) :
                 /\ probe.result = WithCounter(probe.file_name, k)
                 /\ \A j \in 1..(k - 1) : WithCounter(probe.file_name, j) \in DOMAIN output_dir

\* the name and its first two counters are taken: the third counter is given
C30_Witness ==
    /\ probe.function = "treat_output_directory_parameter_outfiles"
    /\ probe.file_name = <<"m", ".", "t", "s", "v">>
    /\ probe.file_name \in DOMAIN output_dir
    /\ WithCounter(probe.file_name, 1) \in DOMAIN output_dir
    /\ WithCounter(probe.file_name, 2) \in DOMAIN output_dir
    /\ probe.result = <<"m", "(", "3", ")", ".", "t", "s", "v">>

====
